---- MODULE Spec2Model ----
(***************************************************************************)
(* Railclaw: policy-gated request router (service orchestrator), direct   *)
(* EVM payment monitor (monitor-transaction.ts) and bridge pipeline       *)
(* monitor (monitor-solana-deposit.ts).                                    *)
(***************************************************************************)
EXTENDS Integers, Sequences, FiniteSets, TLC

(***************************************************************************)
(* Bounds of the model.                                                    *)
(***************************************************************************)
\* the non-zero max_single_payment value a policy document may carry
PolicyMax == 2
\* number of create_payment_link requests served in one behaviour
MaxRequests == 2
\* number of edits the external policy editor makes in one behaviour
MaxEdits == 1
\* height of the settlement chain when the monitors are launched
StartBlock == 12
\* blocks mined on the settlement chain in one behaviour
MaxBlocks == 2
\* blocks of one behaviour that carry a transfer or a fill
MaxEvents == 2
\* largest --confirmations value a direct monitor is launched with
MaxConfirmations == 2
\* largest age, in seconds, of a record when its monitor starts scanning
MaxAge == 1
\* how many times a monitor is started again for the same payment
MaxRestarts == 1
\* number of orchestrator requests that run Step 1.5 in one behaviour
MaxDrains == 2
\* largest --stage3-lookback a resumed monitor is started with, where the
\* historical scan is checked
MaxLookback == 21
\* blocks already mined on the settlement chain when such a scan starts
MaxMined == 10
\* verify-otp.ts processes that may run at the same time
MaxVerifiers == 2
\* verify-otp.ts calls made for one issued OTP in one behaviour
MaxCalls == 5

(***************************************************************************)
(* Vocabulary.                                                             *)
(***************************************************************************)
NoValue == "none"

\* chain tags as they appear in requests (free-form, any case)
ReqChains == {"Polygon", "solana", "ethereum"}
\* token symbols as they appear in requests (free-form, any case)
ReqTokens == {"usdc", "DAI"}
\* payment ids generateId('pay') may return
PaymentIds == {"pay_1", "pay_2"}

\* String.prototype.toLowerCase on the chain tags of the model
ToLower(s) ==
    CASE s = "Polygon" -> "polygon"
      [] s = "USDC" -> "usdc"
      [] s = "DAI" -> "dai"
      [] s = "WBTC" -> "wbtc"
      [] OTHER -> s

\* String.prototype.toUpperCase on the token symbols of the model
ToUpper(s) ==
    CASE s = "usdc" -> "USDC"
      [] s = "dai" -> "DAI"
      [] s = "wbtc" -> "WBTC"
      [] OTHER -> s

(***************************************************************************)
(* The policy document BOUNDARY.md.                                        *)
(***************************************************************************)
PolicyDocs ==
    [ status : {"active", "pending_onboarding"},
      onboarded : BOOLEAN,
      allowed_chains : {{}, {"polygon"}, {"polygon", "solana"}},
      allowed_tokens : {{"USDC"}, {"usdc", "DAI"}, {"DAI"}},
      max_single_payment : {0, PolicyMax},
      user_payable_chains : {{}, {"solana"}},
      bridge_enabled : BOOLEAN,
      settlement_chain : {"polygon"} ]

\* the document of an onboarded business: polygon/USDC, bridge from solana
OnboardedDoc ==
    [ status |-> "active", onboarded |-> TRUE,
      allowed_chains |-> {"polygon"}, allowed_tokens |-> {"USDC"},
      max_single_payment |-> PolicyMax,
      user_payable_chains |-> {"solana"}, bridge_enabled |-> TRUE,
      settlement_chain |-> "polygon" ]

\* the documents one /boundary command of the owner bot can turn doc into
OneFieldEdits(doc) ==
    { d \in PolicyDocs :
        /\ d # doc
        /\ Cardinality({ f \in DOMAIN doc : d[f] # doc[f] }) = 1 }

VARIABLES
    boundary,       \* BOUNDARY.md as it is on disk
    version,        \* front-matter version of BOUNDARY.md
    opc,            \* position of the orchestrator in its pipeline
    request,        \* the request being processed
    route,          \* route decided in step 3
    response,       \* response returned to the caller
    served,         \* number of requests received so far
    pending,        \* record store: pending/<payment_id>.json
    monitors,       \* monitor processes launched: <<kind, payment_id>>
    newId,          \* payment id returned by the record-creating script
    atReceive,      \* record store and monitors as they were when the request arrived
    blocks,         \* blocks mined on the settlement chain since StartBlock
    dArgs,          \* command line of the direct monitor
    dm,             \* direct monitor: position and locals
    bArgs,          \* command line of the bridge monitor
    bm,             \* bridge monitor: position and locals
    solBalance,     \* USDC balance of the deposit address on Solana
    notifications,  \* notifications/<payment_id>.json files written
    drain,          \* orchestrator, Step 1.5: position, files read, lists returned
    otp             \* otp/<email_hash>.json, the clock and the verify-otp.ts calls

\* the orchestrator's own state, the record store apart
routerVars ==
    << boundary, version, opc, request, route, response, served,
       monitors, newId, atReceive >>

orchVars ==
    << boundary, version, opc, request, route, response, served,
       pending, monitors, newId, atReceive >>

\* the settlement chain and the monitor processes
monVars == << blocks, dArgs, dm, bArgs, bm, solBalance, notifications, drain, otp >>

NoRequest == [ action |-> NoValue, chain |-> NoValue, token |-> NoValue, amount |-> 0 ]
NoRoute == [ route |-> NoValue, settlement_chain |-> NoValue ]
NoResponse == [ status |-> NoValue, violation |-> NoValue ]
NoRecord == [ kind |-> NoValue ]
\* Step 1.5 not in progress, nothing returned yet
NoDrain == [ pc |-> "idle", read |-> {}, returned |-> << >> ]

\* the verify-otp.ts processes of the model
Verifiers == 1..MaxVerifiers
\* no file otp/<email_hash>.json
NoOtpFile == [ otp_plain |-> NoValue, attempts |-> 0, max_attempts |-> 0 ]
\* a verify-otp.ts process that is not running
IdleVerifier == [ pc |-> "idle", code |-> NoValue, rec |-> NoOtpFile,
                  result |-> NoValue ]
\* no OTP has been issued and no verification is under way
NoOtp ==
    [ file |-> NoOtpFile, late |-> FALSE, procs |-> [ p \in Verifiers |-> IdleVerifier ],
      calls |-> 0, compared |-> 0, raced |-> FALSE ]

Requests ==
    [ action : {"create_payment_link"}, chain : ReqChains, token : ReqTokens,
      amount : 1..(PolicyMax + 1) ]

(***************************************************************************)
(* Orchestrator pipeline (operating instructions, steps 2 and 3).          *)
(***************************************************************************)
\* "Read BOUNDARY.md": the document the orchestrator works with in this step
ReadBoundaryCached == OnboardedDoc
ReadBoundary == boundary

\* Step 2: business status
BusinessReadyInverted(doc) == doc.status = "active" \/ doc.onboarded = TRUE
BusinessReady(doc) == doc.status = "active" /\ doc.onboarded = TRUE

\* Step 3, routing: bridge first, then direct, else rejected
DetermineRouteDirectFirst(doc, req) ==
    IF ToLower(req.chain) \in doc.allowed_chains
    THEN [ route |-> "direct", settlement_chain |-> ToLower(req.chain) ]
    ELSE IF ToLower(req.chain) \in doc.user_payable_chains /\ doc.bridge_enabled = TRUE
    THEN [ route |-> "bridge", settlement_chain |-> doc.settlement_chain ]
    ELSE [ route |-> "rejected", settlement_chain |-> NoValue ]
DetermineRoute(doc, req) ==
    IF ToLower(req.chain) \in doc.user_payable_chains /\ doc.bridge_enabled = TRUE
    THEN [ route |-> "bridge", settlement_chain |-> doc.settlement_chain ]
    ELSE IF ToLower(req.chain) \in doc.allowed_chains
    THEN [ route |-> "direct", settlement_chain |-> ToLower(req.chain) ]
    ELSE [ route |-> "rejected", settlement_chain |-> NoValue ]

\* Step 3, token check: case-insensitive membership in allowed_tokens
TokenAllowedExact(doc, token) == token \in doc.allowed_tokens
TokenAllowed(doc, token) ==
    ToUpper(token) \in { ToUpper(t) : t \in doc.allowed_tokens }

\* Step 3, amount check: only when max_single_payment > 0
AmountAllowedStrict(doc, amount) ==
    doc.max_single_payment > 0 => amount < doc.max_single_payment
AmountAllowed(doc, amount) ==
    doc.max_single_payment > 0 => amount <= doc.max_single_payment

\* Step 3 as a whole: the violation found, or "none"
Violation(doc, req) ==
    IF DetermineRoute(doc, req).route = "rejected" THEN "chain"
    ELSE IF ~TokenAllowed(doc, req.token) THEN "token"
    ELSE IF ~AmountAllowed(doc, req.amount) THEN "amount"
    ELSE NoValue

\* where the pipeline goes after step 3: stop on a violation, else execute
AfterEnforceAlways(violation) == "exec1"
AfterEnforce(violation) == IF violation = NoValue THEN "exec1" ELSE "done"

\* where the pipeline goes after step 2: stop when not ready
AfterStatusAlways(ready) == "step3"
AfterStatus(ready) == IF ready THEN "step3" ELSE "done"

(***************************************************************************)
(* Record-creating scripts.                                                *)
(***************************************************************************)
\* config.tokens: symbols with a configured address, per chain
ConfigTokens(chain) ==
    CASE chain = "polygon" -> {"USDC", "USDT", "DAI", "WETH"}
      [] chain = "arbitrum" -> {"USDC", "USDT", "DAI", "WETH"}
      [] chain = "solana" -> {"USDC"}
      [] OTHER -> {}

\* config.bridge.spokePools: chains with a configured SpokePool
SpokePoolChains == {"polygon", "arbitrum", "solana"}

\* config.rpc: chains with a configured RPC endpoint
RpcChains == {"polygon", "arbitrum", "solana"}

\* generate-payment-link.ts: the record it writes
DirectRecord(chain, token, amount) ==
    [ kind |-> "direct", status |-> "pending",
      chain |-> ToLower(chain), source_chain |-> NoValue,
      token |-> ToUpper(token), amount |-> amount,
      tx_hash |-> NoValue, confirmations |-> 0 ]

\* bridge-payment.ts: chain pair and token validation
BridgePaymentSupported(sourceChain, settlementChain, token) ==
    /\ sourceChain \in SpokePoolChains
    /\ settlementChain \in SpokePoolChains
    /\ ToUpper(token) \in ConfigTokens(sourceChain)
    /\ ToUpper(token) \in ConfigTokens(settlementChain)

\* bridge-payment.ts: the record it writes
BridgeRecord(sourceChain, settlementChain, token, amount) ==
    [ kind |-> "bridge", status |-> "waiting_deposit",
      chain |-> settlementChain, source_chain |-> sourceChain,
      token |-> ToUpper(token), amount |-> amount,
      tx_hash |-> NoValue, confirmations |-> 0 ]

(***************************************************************************)
(* Orchestrator actions.                                                   *)
(***************************************************************************)
\* Step 1: a request arrives (a fresh orchestrator sub-agent is spawned)
Receive ==
    /\ UNCHANGED monVars
    /\ opc = "idle"
    /\ served < MaxRequests
    /\ \E req \in Requests : request' = req
    /\ opc' = "step2"
    /\ served' = served + 1
    /\ atReceive' = << pending, monitors >>
    /\ UNCHANGED << boundary, version, route, response, pending, monitors,
                    newId >>

\* Step 2: check business status
CheckBusinessStatus ==
    /\ UNCHANGED monVars
    /\ opc = "step2"
    /\ LET doc == ReadBoundary IN
        /\ opc' = AfterStatus(BusinessReady(doc))
        /\ response' = IF BusinessReady(doc) THEN response
                       ELSE [ status |-> "not_ready", violation |-> NoValue ]
    /\ UNCHANGED << boundary, version, request, route, served, pending, monitors,
                    newId, atReceive >>

\* Step 3: enforce boundaries
EnforceBoundaries ==
    /\ UNCHANGED monVars
    /\ opc = "step3"
    /\ LET doc == ReadBoundary
           v == Violation(doc, request) IN
        /\ route' = DetermineRoute(doc, request)
        /\ opc' = AfterEnforce(v)
        /\ response' = IF v = NoValue THEN response
                       ELSE [ status |-> "rejected", violation |-> v ]
    /\ UNCHANGED << boundary, version, request, served, pending, monitors,
                    newId, atReceive >>

\* Step 4, sub-agent 1, direct route: generate-payment-link.ts
GeneratePaymentLink ==
    /\ UNCHANGED monVars
    /\ opc = "exec1"
    /\ route.route = "direct"
    /\ \E id \in PaymentIds :
        /\ pending' = [ pending EXCEPT
               ![id] = DirectRecord(request.chain, request.token, request.amount) ]
        /\ newId' = id
    /\ opc' = "exec2"
    /\ UNCHANGED << boundary, version, request, route, response, served,
                    monitors, atReceive >>

\* Step 4, sub-agent 1, bridge route: bridge-payment.ts
BridgePayment ==
    /\ UNCHANGED monVars
    /\ opc = "exec1"
    /\ route.route = "bridge"
    /\ IF BridgePaymentSupported(request.chain, route.settlement_chain, request.token)
       THEN /\ \E id \in PaymentIds :
                /\ pending' = [ pending EXCEPT
                       ![id] = BridgeRecord(request.chain, route.settlement_chain,
                                            request.token, request.amount) ]
                /\ newId' = id
            /\ opc' = "exec2"
            /\ UNCHANGED response
       ELSE /\ response' = [ status |-> "error", violation |-> NoValue ]
            /\ opc' = "done"
            /\ UNCHANGED << pending, newId >>
    /\ UNCHANGED << boundary, version, request, route, served, monitors,
                    atReceive >>

\* Step 4, sub-agent 2: start the background monitor, return to the caller
LaunchMonitor ==
    /\ UNCHANGED monVars
    /\ opc = "exec2"
    /\ monitors' = monitors \cup { << route.route, newId >> }
    /\ response' = [ status |-> IF route.route = "bridge" THEN "bridge_payment"
                                ELSE "executed",
                     violation |-> NoValue ]
    /\ opc' = "done"
    /\ UNCHANGED << boundary, version, request, route, served, pending,
                    newId, atReceive >>

\* Step 5: record narrative memory; the orchestrator ends
RecordMemory ==
    /\ UNCHANGED monVars
    /\ opc = "done"
    /\ opc' = "idle"
    /\ request' = NoRequest
    /\ route' = NoRoute
    /\ response' = NoResponse
    /\ newId' = NoValue
    /\ atReceive' = << pending, monitors >>
    /\ UNCHANGED << boundary, version, served, pending, monitors >>

\* the business-owner agent rewrites BOUNDARY.md (one /boundary command)
EditBoundary ==
    /\ UNCHANGED monVars
    /\ version < 1 + MaxEdits
    /\ \E d \in OneFieldEdits(boundary) : boundary' = d
    /\ version' = version + 1
    /\ UNCHANGED << opc, request, route, response, served, pending,
                    monitors, newId, atReceive >>

(***************************************************************************)
(* Configuration and addresses the monitors work with.                     *)
(***************************************************************************)
\* payment ids of the records the two monitors are launched for
DirectId == "pay_1"
BridgeId == "pay_2"

\* config.bridge.spokePools, as written in the configuration
SpokePools(c) ==
    CASE c = "polygon" -> "0x9295ee1d8C5b022Be115A2AD3c30C72E34e7F096"
      [] c = "arbitrum" -> "0xe35e9842fceaca96570b734083f4a58e8f7c5f2a"
      [] c = "solana" -> "DLv3NggMiSaef97YCkew5xKUHDh13tVGZ7tydt3ZeAru"
      [] OTHER -> NoValue

\* config.tokens: contract (or mint) address of a symbol on a chain
TokenAddress(c, t) ==
    CASE c = "polygon" /\ t = "USDC" -> "0x3c499c542cEF5E3811e1192ce70d8cC03d5c3359"
      [] c = "polygon" /\ t = "DAI" -> "0x8f3Cf7ad23Cd3CaDbD9735AFf958023239c6A063"
      [] c = "arbitrum" /\ t = "USDC" -> "0xaf88d065e77c8cC2239327C5EDb3A432268e5831"
      [] c = "solana" /\ t = "USDC" -> "EPjFWdd5AufqSSqeM2qN1xzybapC8G4wEGGkZwyTDt1v"
      [] OTHER -> NoValue

\* String.prototype.toLowerCase on the addresses of the model
LowerHex(a) ==
    CASE a = "0x9295ee1d8C5b022Be115A2AD3c30C72E34e7F096"
             -> "0x9295ee1d8c5b022be115a2ad3c30c72e34e7f096"
      [] a = "0x3c499c542cEF5E3811e1192ce70d8cC03d5c3359"
             -> "0x3c499c542cef5e3811e1192ce70d8cc03d5c3359"
      [] a = "0x8f3Cf7ad23Cd3CaDbD9735AFf958023239c6A063"
             -> "0x8f3cf7ad23cd3cadbd9735aff958023239c6a063"
      [] a = "0xaf88d065e77c8cC2239327C5EDb3A432268e5831"
             -> "0xaf88d065e77c8cc2239327c5edb3a432268e5831"
      [] a = "0xB0B5A11E7" -> "0xb0b5a11e7"
      [] OTHER -> a

\* String.prototype.startsWith('0x') on the addresses of the model
StartsWith0x(a) == a \notin {"DLv3NggMiSaef97YCkew5xKUHDh13tVGZ7tydt3ZeAru", NoValue}

\* business.wallet of BOUNDARY.md as the owner typed it, and other accounts
SettlementWallet == "0xB0B5A11E7"
OtherWallet == "0x0ther"
Payer == "0xpayer"
\* a contract that is neither a configured token nor a configured SpokePool
OtherContract == "0xc0ffee"

\* a 32-byte topic or ABI word holding an address: 12 zero bytes, then the
\* 20 bytes of the address in lower-case hex
ZeroPadValue(a) == << "000000000000000000000000", LowerHex(a) >>
\* '0x' + word.slice(-40).toLowerCase()
Last20Bytes(word) == LowerHex(word[2])

\* monitor-transaction.ts: symbols watched by block polling
NativeTokens == {"ETH", "MATIC", "AVAX", "BNB", "SOL"}

\* monitor-transaction.ts: getLogs chunk size
MAX_BLOCK_RANGE == 10

(***************************************************************************)
(* Amounts.  A human amount is num / 10^scale; a raw amount is an integer  *)
(* number of base units.                                                   *)
(***************************************************************************)
RECURSIVE Pow10(_)
Pow10(n) == IF n = 0 THEN 1 ELSE 10 * Pow10(n - 1)

Min(a, b) == IF a < b THEN a ELSE b
Max(a, b) == IF a > b THEN a ELSE b

\* floor(a * b / c) as bigint arithmetic gives it, computed without leaving
\* the integers TLC can hold
MulDiv(a, b, c) == (a \div c) * b + ((a % c) * b) \div c

\* ethers.parseUnits(amount.toString(), decimals)
ParseUnits(amount, decimals) == amount.num * Pow10(decimals - amount.scale)

\* decimals() of a token contract, and getTokenDecimals with its fallback
OnChainDecimals(t) == IF t \in {"USDC", "USDT"} THEN 6 ELSE 18
GetTokenDecimals(t, rpcOk) == IF rpcOk THEN OnChainDecimals(t) ELSE 6

\* main: the window of raw amounts accepted for an ERC-20 payment
MinAmount(expected) == (expected * 99) \div 100
MaxAmount(expected) == (expected * 110) \div 100

\* waitForERC20Transfer: the amount test on a Transfer log
AmountAtLeast(v, lo, hi) == v >= lo
AmountInWindow(v, lo, hi) == v >= lo /\ v <= hi

\* pollForNativeTransfer: parseFloat(formatEther(value)) >= amount * 0.99,
\* with value counted in hundredths of a coin
NativeAmountOk(value, amount) == value * Pow10(amount.scale) >= 99 * amount.num

\* human amounts the monitors of the model are launched with
OneCoin == [ num |-> 1, scale |-> 0 ]
Dust == [ num |-> 15, scale |-> 5 ]

(***************************************************************************)
(* The settlement chain as the RPC node serves it.  Every block carries at *)
(* most one transaction: an ERC-20 transfer, a native transfer, or a relay *)
(* fill (a FilledRelay log of the emitting contract together with the      *)
(* Transfer log of the output token, from that contract to the recipient). *)
(***************************************************************************)
TRANSFER_TOPIC == "Transfer(address,address,uint256)"

EmptyBlock ==
    [ type |-> "empty", address |-> NoValue, from |-> NoValue, to |-> NoValue,
      value |-> 0, origin |-> NoValue ]
TransferBlock(token, from, to, value) ==
    [ type |-> "transfer", address |-> LowerHex(token), from |-> LowerHex(from),
      to |-> LowerHex(to), value |-> value, origin |-> NoValue ]
NativeBlock(from, to, value) ==
    [ type |-> "native", address |-> NoValue, from |-> LowerHex(from),
      to |-> LowerHex(to), value |-> value, origin |-> NoValue ]
FillBlock(emitter, origin, recipient, token, value) ==
    [ type |-> "fill", address |-> LowerHex(token), from |-> LowerHex(emitter),
      to |-> LowerHex(recipient), value |-> value, origin |-> origin ]

\* provider.getBlockNumber()
BlockNumber == StartBlock + Len(blocks)
BlockAt(n) ==
    IF n > StartBlock /\ n <= BlockNumber THEN blocks[n - StartBlock] ELSE EmptyBlock
\* number of blocks that carry a transaction
Events == Cardinality({ i \in 1..Len(blocks) : blocks[i].type # "empty" })

\* the Transfer log of block n
HasTransferLog(n) == BlockAt(n).type \in {"transfer", "fill"}
TransferLogIn(n, b) ==
    [ blockNumber |-> n, address |-> b.address,
      topics |-> << TRANSFER_TOPIC, ZeroPadValue(b.from), ZeroPadValue(b.to) >>,
      data |-> b.value ]
TransferLogOf(n) == TransferLogIn(n, BlockAt(n))
NoLog == [ blockNumber |-> 0, address |-> NoValue, topics |-> << >>, data |-> 0 ]

\* the filter { address, topics: [TRANSFER_TOPIC, null, recipientTopic] }
TransferFilter(log, address, recipientTopic) ==
    /\ log.address = LowerHex(address)
    /\ log.topics[1] = TRANSFER_TOPIC
    /\ log.topics[3] = recipientTopic

\* provider.getLogs with that filter over fromBlock..toBlock
GetTransferLogs(address, recipientTopic, fromBlock, toBlock) ==
    { TransferLogOf(n) :
        n \in { m \in fromBlock..toBlock :
                  /\ HasTransferLog(m)
                  /\ TransferFilter(TransferLogOf(m), address, recipientTopic) } }

\* the first log of a set of logs, in chain order
FirstLog(logs) ==
    IF logs = {} THEN NoLog
    ELSE CHOOSE l \in logs : \A k \in logs : l.blockNumber <= k.blockNumber

\* transaction hash of the transaction in block n
TxHash(n) == ToString(n)

(***************************************************************************)
(* Direct monitor: monitor-transaction.ts.                                 *)
(***************************************************************************)
\* senders whose transfers are relay fills, not customer payments
BRIDGE_SENDERS ==
    { LowerHex(SpokePools(c)) : c \in { k \in SpokePoolChains : StartsWith0x(SpokePools(k)) } }
IsBridgeFillNever(log) == FALSE
IsBridgeFill(log) ==
    IF Len(log.topics) < 2 THEN FALSE
    ELSE Last20Bytes(log.topics[2]) \in BRIDGE_SENDERS

\* the transfer the monitor settled on, with the path that found it
NoMatch ==
    [ path |-> NoValue, blockNumber |-> 0, txHash |-> NoValue, address |-> NoValue,
      from |-> NoValue, to |-> NoValue, value |-> 0 ]
MatchOfLog(path, log) ==
    [ path |-> path, blockNumber |-> log.blockNumber, txHash |-> TxHash(log.blockNumber),
      address |-> log.address, from |-> Last20Bytes(log.topics[2]),
      to |-> Last20Bytes(log.topics[3]), value |-> log.data ]
MatchOfTx(n) ==
    [ path |-> "native", blockNumber |-> n, txHash |-> TxHash(n), address |-> NoValue,
      from |-> BlockAt(n).from, to |-> BlockAt(n).to, value |-> BlockAt(n).value ]

\* the historical loops: ce = Math.min(cs + MAX_BLOCK_RANGE - 1, currentBlock);
\* the mutant asks for one block more
ChunkEndOverlapping(cs, currentBlock) == Min(cs + MAX_BLOCK_RANGE, currentBlock)
ChunkEnd(cs, currentBlock) == Min(cs + MAX_BLOCK_RANGE - 1, currentBlock)

\* the historical loops: try { getLogs ... } catch { skip chunk } inside the
\* loop body, so a rejected call goes on with the next chunk; the mutant
\* leaves the loop
SkipChunkAbandons(next, abandoned) == abandoned
SkipChunk(next, abandoned) == next

\* the getLogs requests of one historical scan, kept as a history where a
\* specification asks for it (on): the window [from, to] the scan was given
\* and, per request, its range and whether the call returned; age is the
\* number of seconds since the payment was created that the scan worked with
NoScan == [ on |-> FALSE, from |-> 0, to |-> 0, asked |-> << >>, age |-> 0 ]
ScanAged(scan, age) == IF scan.on THEN [ scan EXCEPT !.age = age ] ELSE scan
ScanStarted(scan, fromBlock, currentBlock) ==
    IF scan.on THEN [ scan EXCEPT !.from = fromBlock, !.to = currentBlock ]
    ELSE scan
ScanAsked(scan, cs, ce, ok) ==
    IF scan.on
    THEN [ scan EXCEPT !.asked = Append(@, [ from |-> cs, to |-> ce, ok |-> ok ]) ]
    ELSE scan

\* a monitor that is not running
DirectOff ==
    [ pc |-> "off", exit |-> NoValue, timedOut |-> FALSE, lo |-> 0, hi |-> 0,
      scanHead |-> 0, cs |-> 0, sub |-> FALSE, inbox |-> << >>, found |-> NoMatch,
      lastChecked |-> 0, observed |-> FALSE, scan |-> NoScan ]
NoArgs ==
    [ chain |-> NoValue, token |-> NoValue, amount |-> OneCoin, wallet |-> NoValue,
      confirmations |-> 0 ]

\* updatePaymentRecord(status, txHash?, confirmations?): an argument is a
\* sequence, empty when the argument is not passed (the mutant writes to the
\* file of the other payment)
UpdatePaymentRecordOther(status, txHash, confirmations) ==
    [ pending EXCEPT ![BridgeId] =
        [ @ EXCEPT !.status = status,
                   !.tx_hash = IF Len(txHash) > 0 THEN txHash[1] ELSE @,
                   !.confirmations = IF Len(confirmations) > 0
                                     THEN confirmations[1] ELSE @ ] ]
UpdatePaymentRecord(status, txHash, confirmations) ==
    [ pending EXCEPT ![DirectId] =
        [ @ EXCEPT !.status = status,
                   !.tx_hash = IF Len(txHash) > 0 THEN txHash[1] ELSE @,
                   !.confirmations = IF Len(confirmations) > 0
                                     THEN confirmations[1] ELSE @ ] ]

\* main: the status written when a matching transfer has been found
FoundStatusConfirmed == "confirmed"
FoundStatus == "confirming"

\* main: the test on what waitForConfirmations returned
ConfirmationsReached(final, required) == final >= required

\* what a direct-monitor step leaves alone
directFrame ==
    << routerVars, dArgs, blocks, bArgs, bm, solBalance, notifications, drain, otp >>

\* the process ends with the given exit code
DirectExit(code) ==
    [ dm EXCEPT !.pc = "exited", !.exit = code, !.sub = FALSE, !.inbox = << >>,
                !.scanHead = 0, !.cs = 0, !.lastChecked = 0 ]

\* top level and main: pick the detection path
DStart ==
    /\ dm.pc = "start"
    /\ IF dArgs.chain \notin RpcChains
       THEN dm' = DirectExit("1")
       ELSE IF dArgs.token \in NativeTokens
       THEN dm' = [ dm EXCEPT !.pc = "native" ]
       ELSE IF TokenAddress(dArgs.chain, dArgs.token) # NoValue
       THEN \E rpcOk \in BOOLEAN :
              LET expected == ParseUnits(dArgs.amount,
                                         GetTokenDecimals(dArgs.token, rpcOk)) IN
              dm' = [ dm EXCEPT !.pc = "historical", !.lo = MinAmount(expected),
                                !.hi = MaxAmount(expected) ]
       ELSE dm' = DirectExit("1")
    /\ UNCHANGED << pending, directFrame >>

\* a look-back that is never capped
EstimatedBlocksBackUncapped(estimatedBlocksBack) == estimatedBlocksBack
\* Math.min(estimatedBlocksBack, 150)
EstimatedBlocksBackCapped(estimatedBlocksBack) == Min(estimatedBlocksBack, 150)

\* waitForERC20Transfer: fromBlock, from the head and the whole seconds since
\* the payment was created
HistoricalFromBlock(currentBlock, secondsSinceCreation) ==
    LET estimatedBlocksBack == ((secondsSinceCreation + 1) \div 2) + 10
    IN Max(0, currentBlock - EstimatedBlocksBackCapped(estimatedBlocksBack))

\* waitForERC20Transfer, phase 1: read the head and bound the look-back, for
\* a payment whose age is one of ages
DHistoricalHeadAged(ages) ==
    /\ dm.pc = "historical"
    /\ dm.scanHead = 0
    /\ \/ /\ \E age \in ages :
               LET fromBlock == HistoricalFromBlock(BlockNumber, age)
               IN dm' = [ dm EXCEPT !.scanHead = BlockNumber, !.cs = fromBlock,
                                    !.scan = ScanAged(ScanStarted(@, fromBlock,
                                                                  BlockNumber), age) ]
          /\ UNCHANGED pending
       \/ \* getBlockNumber rejects: main's catch writes expired
          /\ dm' = DirectExit("0")
          /\ pending' = UpdatePaymentRecord("expired", << >>, << >>)
    /\ UNCHANGED directFrame

DHistoricalHead == DHistoricalHeadAged(0..MaxAge)

\* waitForERC20Transfer, phase 1: one chunk of the historical scan (a
\* rejected getLogs matters only when the chunk holds a matching log, or when
\* the history of requests is kept)
DHistoricalChunk ==
    /\ dm.pc = "historical"
    /\ dm.scanHead > 0
    /\ LET ce == ChunkEnd(dm.cs, dm.scanHead)
           recipientTopic == ZeroPadValue(dArgs.wallet)
           logs == GetTransferLogs(TokenAddress(dArgs.chain, dArgs.token),
                                   recipientTopic, dm.cs, ce)
           hits == { l \in logs : /\ ~IsBridgeFill(l)
                                  /\ AmountInWindow(l.data, dm.lo, dm.hi) }
           more == dm.cs + MAX_BLOCK_RANGE <= dm.scanHead
           skip == IF more THEN [ dm EXCEPT !.cs = dm.cs + MAX_BLOCK_RANGE ]
                   ELSE [ dm EXCEPT !.pc = "subscribe", !.scanHead = 0, !.cs = 0 ]
       IN \/ /\ hits # {}
             /\ dm' = [ dm EXCEPT !.pc = "found", !.scanHead = 0, !.cs = 0,
                                  !.found = MatchOfLog("historical", FirstLog(hits)),
                                  !.scan = ScanAsked(@, dm.cs, ce, TRUE) ]
          \/ /\ hits = {}
             /\ dm' = [ skip EXCEPT !.scan = ScanAsked(@, dm.cs, ce, TRUE) ]
          \/ \* getLogs rejects: the chunk is skipped
             /\ hits # {} \/ dm.scan.on
             /\ dm' = [ SkipChunk(skip, [ dm EXCEPT !.pc = "subscribe",
                                                   !.scanHead = 0, !.cs = 0 ])
                         EXCEPT !.scan = ScanAsked(@, dm.cs, ce, FALSE) ]
    /\ UNCHANGED << pending, directFrame >>

\* waitForERC20Transfer, phase 2: open the subscription, or give up when no
\* time remains
DSubscribe ==
    /\ dm.pc = "subscribe"
    /\ IF dm.timedOut
       THEN /\ dm' = DirectExit("0")
            /\ pending' = UpdatePaymentRecord("expired", << >>, << >>)
       ELSE /\ dm' = [ dm EXCEPT !.pc = "live", !.sub = TRUE ]
            /\ UNCHANGED pending
    /\ UNCHANGED directFrame

\* waitForERC20Transfer, phase 2: the subscription callback on one log
DLiveLog ==
    /\ dm.pc = "live"
    /\ dm.inbox # << >>
    /\ LET log == Head(dm.inbox) IN
       IF IsBridgeFill(log) \/ ~AmountInWindow(log.data, dm.lo, dm.hi)
       THEN dm' = [ dm EXCEPT !.inbox = Tail(dm.inbox) ]
       ELSE dm' = [ dm EXCEPT !.pc = "found", !.sub = FALSE, !.inbox = << >>,
                              !.found = MatchOfLog("live", log) ]
    /\ UNCHANGED << pending, directFrame >>

\* waitForERC20Transfer, phase 2: the timer fires; main's catch writes expired
DLiveTimeout ==
    /\ dm.pc = "live"
    /\ dm.timedOut
    /\ dm' = DirectExit("0")
    /\ pending' = UpdatePaymentRecord("expired", << >>, << >>)
    /\ UNCHANGED directFrame

\* pollForNativeTransfer: one iteration of the polling loop (an iteration
\* that throws is caught and changes nothing)
DNativePoll ==
    /\ dm.pc = "native"
    /\ ~dm.timedOut
    /\ LET fromBlock == IF dm.lastChecked > 0 THEN dm.lastChecked + 1
                        ELSE BlockNumber - 5
           hits == { n \in fromBlock..BlockNumber :
                       /\ BlockAt(n).type = "native"
                       /\ LowerHex(BlockAt(n).to) = dArgs.wallet
                       /\ NativeAmountOk(BlockAt(n).value, dArgs.amount) }
       IN IF hits # {}
          THEN dm' = [ dm EXCEPT !.pc = "found", !.lastChecked = 0,
                                 !.found = MatchOfTx(CHOOSE n \in hits :
                                                        \A m \in hits : n <= m) ]
          ELSE dm' = [ dm EXCEPT !.lastChecked = BlockNumber ]
    /\ UNCHANGED << pending, directFrame >>

\* pollForNativeTransfer returns null at the deadline; main writes expired
DNativeTimeout ==
    /\ dm.pc = "native"
    /\ dm.timedOut
    /\ dm' = DirectExit("0")
    /\ pending' = UpdatePaymentRecord("expired", << >>, << >>)
    /\ UNCHANGED directFrame

\* main: a matching transfer was found
DFound ==
    /\ dm.pc = "found"
    /\ pending' = UpdatePaymentRecord(FoundStatus, << dm.found.txHash >>, << 0 >>)
    /\ dm' = [ dm EXCEPT !.pc = "confirmations" ]
    /\ UNCHANGED directFrame

\* waitForConfirmations: one iteration of the loop, then main's test on the
\* value returned
DConfirmationPoll ==
    /\ dm.pc = "confirmations"
    /\ ~dm.timedOut
    /\ \/ LET confirmations == BlockNumber - dm.found.blockNumber + 1 IN
          /\ confirmations >= dArgs.confirmations
          /\ dm' = [ DirectExit("0") EXCEPT !.observed = TRUE ]
          /\ pending' = IF ConfirmationsReached(confirmations, dArgs.confirmations)
                        THEN UpdatePaymentRecord("confirmed", << dm.found.txHash >>,
                                                 << confirmations >>)
                        ELSE UpdatePaymentRecord("expired", << >>, << >>)
       \/ \* getBlockNumber rejects: main().catch exits, the record is left
          /\ dm' = DirectExit("1")
          /\ UNCHANGED pending
    /\ UNCHANGED directFrame

\* waitForConfirmations leaves its loop at the deadline and returns 0; then
\* main's test on the value returned
DConfirmationTimeout ==
    /\ dm.pc = "confirmations"
    /\ dm.timedOut
    /\ dm' = DirectExit("0")
    /\ pending' = IF ConfirmationsReached(0, dArgs.confirmations)
                  THEN UpdatePaymentRecord("confirmed", << dm.found.txHash >>, << 0 >>)
                  ELSE UpdatePaymentRecord("expired", << >>, << >>)
    /\ UNCHANGED directFrame

\* the direct monitor's deadline (startTime + timeoutMs) passes
DDeadline ==
    /\ dm.pc \notin {"off", "exited"}
    /\ ~dm.timedOut
    /\ dm' = [ dm EXCEPT !.timedOut = TRUE ]
    /\ UNCHANGED << pending, directFrame >>

(***************************************************************************)
(* Bridge monitor: monitor-solana-deposit.ts.                              *)
(***************************************************************************)
\* config.bridge.acrossChainIds, as decimal strings
AcrossChainIds(c) ==
    CASE c = "polygon" -> "137"
      [] c = "arbitrum" -> "42161"
      [] c = "solana" -> "34268394551451"
      [] OTHER -> NoValue

FILLED_RELAY_TOPIC == "FilledRelay"
\* zeroPadValue(toBeHex(chainId), 32)
ChainIdTopic(id) == << "00", id >>

\* the FilledRelay log of block n, a fill
FillLogIn(n, b) ==
    [ blockNumber |-> n, address |-> b.from,
      topics |-> << FILLED_RELAY_TOPIC, ChainIdTopic(b.origin) >>,
      recipient |-> ZeroPadValue(b.to), outputToken |-> ZeroPadValue(b.address),
      outputAmount |-> b.value ]
FillLogOf(n) == FillLogIn(n, BlockAt(n))

\* the filter { address: spokePoolAddr, topics: [filledTopic, originChainIdTopic] }
FillFilter(log, address, originChainIdTopic) ==
    /\ log.address = LowerHex(address)
    /\ log.topics[1] = FILLED_RELAY_TOPIC
    /\ log.topics[2] = originChainIdTopic

\* httpProvider.getLogs with that filter over fromBlock..toBlock
GetFillLogs(address, originChainIdTopic, fromBlock, toBlock) ==
    { FillLogOf(n) :
        n \in { m \in fromBlock..toBlock :
                  /\ BlockAt(m).type = "fill"
                  /\ FillFilter(FillLogOf(m), address, originChainIdTopic) } }

\* waitForEVMFill: the window of output amounts accepted
MinOutput(expectedOutputRaw) == (expectedOutputRaw * 9900) \div 10000
MaxOutput(expectedOutputRaw) == (expectedOutputRaw * 10100) \div 10000

\* waitForEVMFill: isMatchingLog
IsMatchingLogAnyRecipient(log, rec) ==
    /\ Last20Bytes(log.outputToken) = LowerHex(rec.output_token_address)
    /\ log.outputAmount >= MinOutput(rec.raw_output_amount)
    /\ log.outputAmount <= MaxOutput(rec.raw_output_amount)
IsMatchingLog(log, rec) ==
    /\ Last20Bytes(log.recipient) = LowerHex(rec.wallet)
    /\ Last20Bytes(log.outputToken) = LowerHex(rec.output_token_address)
    /\ log.outputAmount >= MinOutput(rec.raw_output_amount)
    /\ log.outputAmount <= MaxOutput(rec.raw_output_amount)

\* a threshold rounded down instead of up (mutant)
MinExpectedFloor(expectedRaw) == (expectedRaw * 99) \div 100
\* a deposit watch that accepts any balance
MinExpectedNone(expectedRaw) == 0
\* waitForSolanaDeposit: the least balance that counts as the deposit
MinExpected(expectedRaw) == expectedRaw - MulDiv(expectedRaw, 100, 10000)

\* toRawAmount(human, decimals) of bridge-payment.ts, six decimals
ToRawAmount(amount) == ParseUnits(amount, 6)
\* relayFee = max(amount * estimatedRelayFeePct, minRelayFeeBuffer), for the
\* amounts of the model (below 416 coins the buffer of 0.50 is the larger)
RawRelayFee(amount) == 500000

\* the record the bridge monitor reads (interface PendingRecord), with the
\* values bridge-payment.ts computes
MonitoredBridgeRecord(sourceChain, settlementChain, token, amount, wallet) ==
    [ kind |-> "bridge", status |-> "waiting_deposit",
      chain |-> settlementChain, source_chain |-> sourceChain,
      token |-> ToUpper(token), amount |-> amount,
      tx_hash |-> NoValue, confirmations |-> 0,
      wallet |-> wallet,
      spoke_pool_destination |-> SpokePools(settlementChain),
      output_token_address |-> TokenAddress(settlementChain, ToUpper(token)),
      raw_input_amount |-> ToRawAmount(amount) + RawRelayFee(amount),
      raw_output_amount |-> ToRawAmount(amount),
      deposit_tx_sig |-> NoValue ]

(***************************************************************************)
(* Stage 2 byte by byte: the buffers computeDelegatePDA hashes and the     *)
(* deposit instruction carries.  A byte of a number is << "b", "", n >>,   *)
(* the i-th byte of a public key << "k", key, i >>, the i-th byte of an    *)
(* EVM address << "a", address, i >>.                                      *)
(***************************************************************************)
RECURSIVE LEBytes(_, _)
\* Buffer.writeBigUInt64LE / writeUInt32LE: k bytes, least significant first
LEBytes(n, k) ==
    IF k = 0 THEN << >> ELSE << << "b", "", n % 256 >> >> \o LEBytes(n \div 256, k - 1)
U64LE(n) == LEBytes(n, 8)
U32LE(n) == LEBytes(n, 4)

Reverse(s) == [ i \in 1..Len(s) |-> s[Len(s) + 1 - i] ]
ZeroBytes(k) == [ i \in 1..k |-> << "b", "", 0 >> ]

\* u64ToBEBytes32: 24 zero bytes, then the eight bytes most significant first
U64ToBEBytes32(n) == ZeroBytes(24) \o Reverse(LEBytes(n, 8))

\* PublicKey.toBuffer(): the 32 bytes of the key
ToBuffer(key) == [ i \in 1..32 |-> << "k", key, i >> ]

\* evmAddressToBytes32: the hex digits left-padded to 64 and decoded
EvmAddressToBytes32(address) ==
    ZeroBytes(12) \o [ i \in 1..20 |-> << "a", LowerHex(address), i >> ]

\* callDepositV3, 2c: the deposit parameters taken from the record
DepositParams(rec, tempKey, actualInputAmount) ==
    [ depositor |-> tempKey,
      recipient |-> EvmAddressToBytes32(rec.wallet),
      inputToken |-> rec.input_token_mint,
      outputToken |-> EvmAddressToBytes32(rec.output_token_address),
      inputAmount |-> actualInputAmount,
      outputAmount |-> U64ToBEBytes32(rec.raw_output_amount),
      destinationChainId |-> rec.destination_chain_id,
      exclusiveRelayer |-> ZeroBytes(32),
      quoteTimestamp |-> rec.quote_timestamp,
      fillDeadline |-> rec.fill_deadline,
      exclusivityParameter |-> 0,
      message |-> << >> ]

\* computeDelegatePDA: the serialized DepositSeedData that is hashed
DelegateSeedData(p) ==
    ToBuffer(p.depositor) \o p.recipient \o ToBuffer(p.inputToken) \o p.outputToken
    \o U64LE(p.inputAmount) \o p.outputAmount \o U64LE(p.destinationChainId)
    \o p.exclusiveRelayer \o U32LE(p.quoteTimestamp) \o U32LE(p.fillDeadline)
    \o U32LE(p.exclusivityParameter) \o U32LE(Len(p.message)) \o p.message

DEPOSIT_DISCRIMINATOR ==
    [ i \in 1..8 |-> << "b", "", << 242, 35, 198, 137, 82, 225, 242, 182 >>[i] >> ]

\* a deposit instruction that carries the output amount least significant
\* byte first
DepositDataOutputLE(p) ==
    DEPOSIT_DISCRIMINATOR
    \o ToBuffer(p.depositor) \o p.recipient \o ToBuffer(p.inputToken) \o p.outputToken
    \o U64LE(p.inputAmount) \o Reverse(p.outputAmount) \o U64LE(p.destinationChainId)
    \o p.exclusiveRelayer \o U32LE(p.quoteTimestamp) \o U32LE(p.fillDeadline)
    \o U32LE(p.exclusivityParameter) \o U32LE(0)
\* callDepositV3, 2f: depositData
DepositData(p) ==
    DEPOSIT_DISCRIMINATOR
    \o ToBuffer(p.depositor) \o p.recipient \o ToBuffer(p.inputToken) \o p.outputToken
    \o U64LE(p.inputAmount) \o p.outputAmount \o U64LE(p.destinationChainId)
    \o p.exclusiveRelayer \o U32LE(p.quoteTimestamp) \o U32LE(p.fillDeadline)
    \o U32LE(p.exclusivityParameter) \o U32LE(0)

\* the public key of the temporary wallet the record's key decrypts to
TempKey == "temp_wallet"

\* a stage 2 that always funds the temporary wallet
TxPlanAlwaysFund(dispenserKey) == << "fund", "approve", "deposit" >>
\* callDepositV3: the transactions it sends, in the order of its code; the
\* funding only if config.sol.dispenserKey is set
TxPlan(dispenserKey) ==
    IF dispenserKey THEN << "fund", "approve", "deposit" >>
    ELSE << "approve", "deposit" >>

\* stage 2 as it stands between two transactions: the transactions still to
\* send, the one sent and not yet confirmed, the seed hashed for the
\* delegate, the amount approved, the data of the deposit instruction, and
\* the history of what was sent and how it ended
NoIx ==
    [ dispenserKey |-> FALSE, todo |-> << >>, sent |-> NoValue, seed |-> << >>,
      approved |-> 0, data |-> << >>, log |-> << >> ]
NoFill == [ path |-> NoValue, txHash |-> NoValue, blockNumber |-> 0 ]
BridgeOff ==
    [ pc |-> "off", exit |-> NoValue, timedOut |-> FALSE, rec |-> NoRecord,
      actualInput |-> 0, settled |-> FALSE, sub |-> FALSE, inbox |-> << >>,
      sweep |-> "idle", scanHead |-> 0, cs |-> 0, fill |-> NoFill, run |-> 0,
      twin |-> "off", fromBlock |-> 0, sweepErr |-> FALSE, txs |-> << >>,
      scan |-> NoScan, ix |-> NoIx ]
NoBridgeArgs == [ resume |-> FALSE, lookback |-> 2000 ]

\* what a bridge-monitor step leaves alone
bridgeFrame == << routerVars, dArgs, dm, blocks, bArgs, drain, otp >>

\* the process ends with the given exit code
BridgeExit(code) ==
    [ bm EXCEPT !.pc = "exited", !.exit = code, !.sub = FALSE, !.inbox = << >>,
                !.sweep = "idle", !.scanHead = 0, !.cs = 0 ]

\* writeFileSync(recordPath, JSON.stringify(record)): the whole in-memory record
WriteRecord(rec) == [ pending EXCEPT ![BridgeId] = rec ]

\* the notification main builds once the record is confirmed
BridgeNotification(paymentId) ==
    [ type |-> "bridge_confirmed", payment_id |-> paymentId ]

\* writeFileSync(notifications/<paymentId>.json): one file per payment_id, a
\* second write for the same payment replaces the first
Enqueue(queue, notification) ==
    { n \in queue : n.payment_id # notification.payment_id } \cup { notification }

\* main: read the record, pick the first stage
BStart ==
    /\ bm.pc = "start"
    /\ bm' = [ bm EXCEPT !.rec = pending[BridgeId],
                         !.pc = IF bArgs.resume THEN "stage3" ELSE "deposit" ]
    /\ UNCHANGED << pending, solBalance, notifications, bridgeFrame >>

\* stage 1, waitForSolanaDeposit: one poll that sees the deposit; main then
\* writes deposit_received (a poll that throws, or sees less, changes
\* nothing)
BPollDeposit ==
    /\ bm.pc = "deposit"
    /\ ~bm.timedOut
    /\ solBalance >= MinExpected(bm.rec.raw_input_amount)
    /\ LET rec == [ bm.rec EXCEPT !.status = "deposit_received" ] IN
       /\ bm' = [ bm EXCEPT !.pc = "depositV3", !.rec = rec,
                            !.actualInput = solBalance ]
       /\ pending' = WriteRecord(rec)
    /\ UNCHANGED << solBalance, notifications, bridgeFrame >>

\* stage 1: the deadline passes; waitForSolanaDeposit returns 0, main writes
\* expired
BDepositTimeout ==
    /\ bm.pc = "deposit"
    /\ bm.timedOut
    /\ LET rec == [ bm.rec EXCEPT !.status = "expired" ] IN
       /\ bm' = [ BridgeExit("0") EXCEPT !.rec = rec ]
       /\ pending' = WriteRecord(rec)
    /\ UNCHANGED << solBalance, notifications, bridgeFrame >>

\* callDepositV3: the transactions it sends and confirms with
\* sendAndPollConfirm, in the order it sends them (2a the dispenser's
\* transfer of SOL, 2e the approval of the delegate, 2f the deposit)
Stage2Txs == << "fund", "approve", "deposit" >>

\* stage 2, decrypt and callDepositV3: the deposit goes to the SpokePool
\* vault and main writes bridging, or a step throws (the key does not
\* decrypt, or a transaction is not sent or not confirmed) and the process
\* exits with the transactions before that step confirmed; bm.txs is the
\* history of the transactions confirmed for this payment
BCallDepositV3 ==
    /\ bm.pc = "depositV3"
    /\ \/ LET rec == [ bm.rec EXCEPT !.status = "bridging",
                                     !.deposit_tx_sig = "sig" ] IN
          /\ bm' = [ bm EXCEPT !.pc = "stage3", !.rec = rec,
                               !.txs = bm.txs \o Stage2Txs ]
          /\ pending' = WriteRecord(rec)
          /\ solBalance' = solBalance - bm.actualInput
       \/ /\ \E done \in 0..(Len(Stage2Txs) - 1) :
               bm' = [ BridgeExit("1") EXCEPT
                         !.txs = bm.txs \o SubSeq(Stage2Txs, 1, done) ]
          /\ UNCHANGED << pending, solBalance >>
    /\ UNCHANGED << notifications, bridgeFrame >>

\* wsProvider.on(filter, callback) has been called by the time the historical
\* check starts (the mutant leaves it out)
SubscriptionRegisteredNever == FALSE
SubscriptionRegistered == TRUE

\* stage 3, waitForEVMFill: no time remains and the promise rejects (main
\* writes expired), or the subscription is registered and the historical
\* check is started
BStage3Start ==
    /\ bm.pc = "stage3"
    /\ IF bm.timedOut
       THEN LET rec == [ bm.rec EXCEPT !.status = "expired" ] IN
            /\ bm' = [ BridgeExit("0") EXCEPT !.rec = rec ]
            /\ pending' = WriteRecord(rec)
       ELSE /\ bm' = [ bm EXCEPT !.pc = "waiting", !.sub = SubscriptionRegistered,
                                 !.sweep = "head" ]
            /\ UNCHANGED pending
    /\ UNCHANGED << solBalance, notifications, bridgeFrame >>

\* resolveOnce(txHash, blockNumber), up to its await
ResolveOnce(path, log) ==
    IF bm.settled THEN bm
    ELSE [ bm EXCEPT !.settled = TRUE, !.sub = FALSE, !.inbox = << >>,
                     !.fill = [ path |-> path, txHash |-> TxHash(log.blockNumber),
                                blockNumber |-> log.blockNumber ] ]

\* stage 3: the subscription callback on one log
BLiveLog ==
    /\ bm.pc = "waiting"
    /\ bm.sub
    /\ bm.inbox # << >>
    /\ LET log == Head(bm.inbox) IN
       IF IsMatchingLog(log, bm.rec)
       THEN bm' = ResolveOnce("live", log)
       ELSE bm' = [ bm EXCEPT !.inbox = Tail(bm.inbox) ]
    /\ UNCHANGED << pending, solBalance, notifications, bridgeFrame >>

\* main: waitForEVMFill(record, deadline, resumeStage3 ? stage3Lookback : 300);
\* the mutant keeps the 300 blocks of a first run
LookbackBlocksFirstRun(args) == 300
LookbackBlocks(args) == IF args.resume THEN args.lookback ELSE 300

\* stage 3, historical check: read the head and bound the look-back
BSweepHead ==
    /\ bm.pc = "waiting"
    /\ bm.sweep = "head"
    /\ \/ bm' = [ bm EXCEPT !.sweep = "scan", !.scanHead = BlockNumber,
                            !.cs = Max(0, BlockNumber - LookbackBlocks(bArgs)),
                            !.fromBlock =
                                Max(0, BlockNumber - LookbackBlocks(bArgs)),
                            !.scan =
                                ScanStarted(@, Max(0, BlockNumber
                                                        - LookbackBlocks(bArgs)),
                                            BlockNumber) ]
       \/ \* getBlockNumber rejects: the historical check is abandoned
          bm' = [ bm EXCEPT !.sweep = "idle", !.sweepErr = TRUE ]
    /\ UNCHANGED << pending, solBalance, notifications, bridgeFrame >>

\* the loop test of the historical check, cs <= currentBlock && !settled (cs
\* beyond the head ends the check in BSweepChunk); the mutant goes on
\* after the wait has settled
SweepContinuesAlways(settled) == TRUE
SweepContinues(settled) == ~settled

\* stage 3, historical check: one chunk
BSweepChunk ==
    /\ bm.pc = "waiting"
    /\ bm.sweep = "scan"
    /\ SweepContinues(bm.settled)
    /\ LET ce == ChunkEnd(bm.cs, bm.scanHead)
           logs == GetFillLogs(bm.rec.spoke_pool_destination,
                               ChainIdTopic(AcrossChainIds("solana")), bm.cs, ce)
           hits == { l \in logs : IsMatchingLog(l, bm.rec) }
           skip == IF bm.cs + MAX_BLOCK_RANGE <= bm.scanHead
                   THEN [ bm EXCEPT !.cs = bm.cs + MAX_BLOCK_RANGE ]
                   ELSE [ bm EXCEPT !.sweep = "idle", !.scanHead = 0, !.cs = 0 ]
       IN \/ /\ hits # {}
             /\ bm' = [ ResolveOnce("historical", FirstLog(hits)) EXCEPT
                         !.scan = ScanAsked(@, bm.cs, ce, TRUE) ]
          \/ /\ hits = {}
             /\ bm' = [ skip EXCEPT !.scan = ScanAsked(@, bm.cs, ce, TRUE) ]
          \/ \* getLogs rejects: the chunk is skipped
             /\ hits # {} \/ bm.scan.on
             /\ bm' = [ SkipChunk(skip, [ bm EXCEPT !.sweep = "idle",
                                                   !.scanHead = 0, !.cs = 0 ])
                         EXCEPT !.sweepErr = TRUE,
                                !.scan = ScanAsked(@, bm.cs, ce, FALSE) ]
    /\ UNCHANGED << pending, solBalance, notifications, bridgeFrame >>

\* resolveOnce after its await, then main: confirmed, tx_hash, confirmations
\* and the notification are written
BResolve ==
    /\ bm.pc = "waiting"
    /\ bm.fill # NoFill
    /\ \E rpcOk \in BOOLEAN :
         LET confs == IF rpcOk THEN BlockNumber - bm.fill.blockNumber + 1 ELSE 1
             rec == [ bm.rec EXCEPT !.status = "confirmed",
                                    !.tx_hash = bm.fill.txHash,
                                    !.confirmations = confs ]
         IN /\ bm' = [ BridgeExit("0") EXCEPT !.rec = rec ]
            /\ pending' = WriteRecord(rec)
    /\ notifications' = Enqueue(notifications, BridgeNotification(BridgeId))
    /\ UNCHANGED << solBalance, bridgeFrame >>

\* stage 3: the timer fires before any fill settled the wait; main writes
\* expired
BFillTimeout ==
    /\ bm.pc = "waiting"
    /\ bm.timedOut
    /\ ~bm.settled
    /\ LET rec == [ bm.rec EXCEPT !.status = "expired" ] IN
       /\ bm' = [ BridgeExit("0") EXCEPT !.rec = rec, !.settled = TRUE ]
       /\ pending' = WriteRecord(rec)
    /\ UNCHANGED << solBalance, notifications, bridgeFrame >>

\* monitor-solana-deposit.ts is started again for the same payment_id after
\* the earlier process has ended, with or without --resume-stage3: a new
\* process, a new deadline, and the record as it is on disk
BRestart ==
    /\ bm.pc = "exited"
    /\ bm.run < MaxRestarts
    /\ bArgs' \in { [ resume |-> r, lookback |-> 2000 ] : r \in BOOLEAN }
    /\ bm' = [ BridgeOff EXCEPT !.pc = "start", !.run = bm.run + 1,
                                !.txs = bm.txs ]
    /\ UNCHANGED << pending, solBalance, notifications, routerVars, dArgs, dm,
                    blocks, drain, otp >>
\* a second process of monitor-solana-deposit.ts is started by hand with
\* --resume-stage3 for the same payment_id while the first is still running:
\* main reads the record and goes to stage 3, nothing looks for a running
\* instance
BManualStart ==
    /\ bm.pc \notin {"off", "exited"}
    /\ bm.twin = "off"
    /\ pending[BridgeId].status = "bridging"
    /\ bm' = [ bm EXCEPT !.twin = "running" ]
    /\ UNCHANGED << pending, solBalance, notifications, bridgeFrame >>

\* the second process, stage 3 to the end: a matching fill inside its
\* look-back resolves the wait and main writes confirmed and the
\* notification
BTwinResolve ==
    /\ bm.twin = "running"
    /\ \E n \in (StartBlock + 1)..BlockNumber :
         /\ BlockAt(n).type = "fill"
         /\ FillFilter(FillLogOf(n), pending[BridgeId].spoke_pool_destination,
                       ChainIdTopic(AcrossChainIds("solana")))
         /\ IsMatchingLog(FillLogOf(n), pending[BridgeId])
         /\ \E rpcOk \in BOOLEAN :
              pending' = [ pending EXCEPT
                  ![BridgeId].status = "confirmed",
                  ![BridgeId].tx_hash = TxHash(n),
                  ![BridgeId].confirmations =
                      IF rpcOk THEN BlockNumber - n + 1 ELSE 1 ]
    /\ notifications' = Enqueue(notifications, BridgeNotification(BridgeId))
    /\ bm' = [ bm EXCEPT !.twin = "exited" ]
    /\ UNCHANGED << solBalance, bridgeFrame >>

\* the second process, stage 3 to the end: its deadline passes first and
\* main writes expired
BTwinTimeout ==
    /\ bm.twin = "running"
    /\ pending' = [ pending EXCEPT ![BridgeId].status = "expired" ]
    /\ bm' = [ bm EXCEPT !.twin = "exited" ]
    /\ UNCHANGED << solBalance, notifications, bridgeFrame >>

\* the bridge monitor's deadline passes
BDeadline ==
    /\ bm.pc \notin {"off", "exited"}
    /\ ~bm.timedOut
    /\ bm' = [ bm EXCEPT !.timedOut = TRUE ]
    /\ UNCHANGED << pending, solBalance, notifications, bridgeFrame >>

(***************************************************************************)
(* The environment of the monitors: payers, relayers, the chain growing.   *)
(***************************************************************************)
\* least native value, in hundredths of a coin, that passes NativeAmountOk
NativeThreshold(amount) ==
    (99 * amount.num + Pow10(amount.scale) - 1) \div Pow10(amount.scale)

\* both monitors have been launched
Concurrent == dm.pc # "off" /\ bm.pc # "off"

\* transactions a payer may send while a direct payment is awaited: amounts
\* at and around the edges of the accepted window, a transfer to another
\* account, and a transfer of another token; next to a bridge payment, the
\* exact amount
PaymentBlocks ==
    IF Concurrent
    THEN { TransferBlock(TokenAddress(dArgs.chain, dArgs.token), Payer, w,
                         ParseUnits(dArgs.amount, OnChainDecimals(dArgs.token))) :
               w \in {SettlementWallet, OtherWallet} }
    ELSE IF dArgs.token \in NativeTokens
    THEN LET t == NativeThreshold(dArgs.amount) IN
         { NativeBlock(Payer, SettlementWallet, v) : v \in {t - 1, t, 2 * t} }
             \cup { NativeBlock(Payer, OtherWallet, t) }
    ELSE LET token == TokenAddress(dArgs.chain, dArgs.token)
             e == ParseUnits(dArgs.amount, OnChainDecimals(dArgs.token))
         IN { TransferBlock(token, Payer, SettlementWallet, v) :
                  v \in { (e * 99) \div 100 - 1, (e * 99) \div 100,
                          (e * 110) \div 100, (e * 110) \div 100 + 1 } }
              \cup { TransferBlock(token, Payer, OtherWallet, e),
                     TransferBlock(TokenAddress("polygon", "DAI"), Payer,
                                   SettlementWallet, e) }

\* fills a relayer (or a look-alike contract) may execute once the deposit
\* of the bridge payment is on its way: output amounts at and around the
\* edges of the accepted window, and fills that differ from the expected
\* one in the emitting contract, the origin chain, the recipient or the
\* output token; next to a direct payment, the exact amount from the
\* SpokePool or from a look-alike contract
FillBlocks ==
    LET rec == pending[BridgeId]
        pool == rec.spoke_pool_destination
        sol == AcrossChainIds("solana")
        raw == rec.raw_output_amount
    IN IF Concurrent
       THEN { FillBlock(c, sol, rec.wallet, rec.output_token_address, raw) :
                  c \in {pool, OtherContract} }
       ELSE
       { FillBlock(pool, sol, rec.wallet, rec.output_token_address, v) :
             v \in { (raw * 9900) \div 10000 - 1, (raw * 9900) \div 10000,
                     (raw * 10100) \div 10000, (raw * 10100) \div 10000 + 1 } }
         \cup { FillBlock(OtherContract, sol, rec.wallet, rec.output_token_address, raw),
                FillBlock(pool, AcrossChainIds("arbitrum"), rec.wallet,
                          rec.output_token_address, raw),
                FillBlock(pool, sol, OtherWallet, rec.output_token_address, raw),
                FillBlock(pool, sol, rec.wallet, TokenAddress("polygon", "DAI"), raw) }

\* the direct monitor after block b is mined: an open subscription queues
\* the block's log when it passes the subscription's filter
DeliverDirect(b) ==
    LET log == TransferLogIn(BlockNumber + 1, b) IN
    IF /\ dm.sub
       /\ b.type \in {"transfer", "fill"}
       /\ TransferFilter(log, TokenAddress(dArgs.chain, dArgs.token),
                         ZeroPadValue(dArgs.wallet))
    THEN [ dm EXCEPT !.inbox = Append(@, log) ]
    ELSE dm

\* the bridge monitor after block b is mined, likewise
DeliverBridge(b) ==
    LET log == FillLogIn(BlockNumber + 1, b) IN
    IF /\ bm.sub
       /\ b.type = "fill"
       /\ FillFilter(log, bm.rec.spoke_pool_destination,
                     ChainIdTopic(AcrossChainIds("solana")))
    THEN [ bm EXCEPT !.inbox = Append(@, log) ]
    ELSE bm

DirectRunning == dm.pc \notin {"off", "exited"}
BridgeRunning == bm.pc \notin {"off", "exited"}

\* block b is mined
Mine(b) ==
    /\ Len(blocks) < MaxBlocks
    /\ DirectRunning \/ BridgeRunning
    /\ blocks' = Append(blocks, b)
    /\ dm' = DeliverDirect(b)
    /\ bm' = DeliverBridge(b)
    /\ UNCHANGED << pending, routerVars, dArgs, bArgs, solBalance, notifications,
                    drain, otp >>

MineEmpty == Mine(EmptyBlock)

MinePayment ==
    /\ Events < MaxEvents
    /\ DirectRunning
    /\ \E b \in PaymentBlocks : Mine(b)

MineFill ==
    /\ Events < MaxEvents
    /\ pending[BridgeId].kind = "bridge"
    /\ pending[BridgeId].status = "bridging"
    /\ \E b \in FillBlocks : Mine(b)

\* a relayer fills on the settlement chain: the deposit of the bridge
\* payment with the exact output amount, or another deposit from Solana to
\* another recipient
MineRelay ==
    /\ Events < MaxEvents
    /\ pending[BridgeId].kind = "bridge"
    /\ pending[BridgeId].status = "bridging"
    /\ LET rec == pending[BridgeId] IN
       \E to \in {rec.wallet, OtherWallet} :
          Mine(FillBlock(rec.spoke_pool_destination, AcrossChainIds("solana"), to,
                         rec.output_token_address, rec.raw_output_amount))

\* the customer pays into the deposit address on Solana: short of the
\* accepted minimum by one unit, exactly the minimum, or the full amount
SolDeposit ==
    /\ BridgeRunning
    /\ pending[BridgeId].status = "waiting_deposit"
    /\ solBalance = 0
    /\ LET raw == pending[BridgeId].raw_input_amount
           least == raw - ((raw * 100) \div 10000)
       IN solBalance' \in { least - 1, least, raw }
    /\ UNCHANGED << pending, routerVars, blocks, dArgs, dm, bArgs, bm, notifications,
                    drain, otp >>

\* the customer tops a short deposit up to the full amount
SolTopUp ==
    /\ BridgeRunning
    /\ pending[BridgeId].status = "waiting_deposit"
    /\ solBalance > 0
    /\ solBalance < MinExpected(pending[BridgeId].raw_input_amount)
    /\ solBalance' = pending[BridgeId].raw_input_amount
    /\ UNCHANGED << pending, routerVars, blocks, dArgs, dm, bArgs, bm, notifications,
                    drain, otp >>

\* no monitor runs: the state of the monitor variables in the router's specs
MonitorsOff ==
    /\ blocks = << >>
    /\ dArgs = NoArgs
    /\ dm = DirectOff
    /\ bArgs = NoBridgeArgs
    /\ bm = BridgeOff
    /\ solBalance = 0
    /\ notifications = {}
    /\ drain = NoDrain
    /\ otp = NoOtp

InitOrchCommon ==
    /\ MonitorsOff
    /\ opc = "idle"
    /\ request = NoRequest
    /\ route = NoRoute
    /\ response = NoResponse
    /\ pending = [ id \in PaymentIds |-> NoRecord ]
    /\ monitors = {}
    /\ newId = NoValue
    /\ atReceive = << [ id \in PaymentIds |-> NoRecord ], {} >>

\* one request against any policy document
InitRoute ==
    /\ boundary \in PolicyDocs
    /\ version = 1 + MaxEdits
    /\ served = MaxRequests - 1
    /\ InitOrchCommon

\* successive requests against a document the owner keeps editing
InitOrch ==
    /\ boundary = OnboardedDoc
    /\ version = 1
    /\ served = 0
    /\ InitOrchCommon

NextRoute ==
    \/ Receive
    \/ CheckBusinessStatus
    \/ EnforceBoundaries
    \/ GeneratePaymentLink
    \/ BridgePayment
    \/ LaunchMonitor
    \/ RecordMemory

NextOrch ==
    \/ NextRoute
    \/ EditBoundary

vars == << orchVars, monVars >>

SpecRoute == InitRoute /\ [][NextRoute]_vars
SpecOrch == InitOrch /\ [][NextOrch]_vars

(***************************************************************************)
(* The direct monitor on its own: one record, one monitor process.         *)
(***************************************************************************)
DirectArgs ==
    [ chain : {"polygon"}, token : {"USDC", "MATIC"}, amount : {OneCoin, Dust},
      wallet : {LowerHex(SettlementWallet)}, confirmations : 0..MaxConfirmations ]

\* the router has served its request and launched the monitor
RouterDone(launched) ==
    /\ boundary = OnboardedDoc
    /\ version = 1
    /\ opc = "idle"
    /\ request = NoRequest
    /\ route = NoRoute
    /\ response = NoResponse
    /\ served = MaxRequests
    /\ monitors = launched
    /\ newId = NoValue
    /\ atReceive = << [ id \in PaymentIds |-> NoRecord ], {} >>

InitDirect ==
    /\ RouterDone({ << "direct", DirectId >> })
    /\ dArgs \in DirectArgs
    /\ pending = [ id \in PaymentIds |->
                     IF id = DirectId
                     THEN DirectRecord(dArgs.chain, dArgs.token, dArgs.amount)
                     ELSE NoRecord ]
    /\ blocks = << >>
    /\ dm = [ DirectOff EXCEPT !.pc = "start" ]
    /\ bArgs = NoBridgeArgs
    /\ bm = BridgeOff
    /\ solBalance = 0
    /\ notifications = {}
    /\ drain = NoDrain
    /\ otp = NoOtp

NextDirect ==
    \/ DStart
    \/ DHistoricalHead
    \/ DHistoricalChunk
    \/ DSubscribe
    \/ DLiveLog
    \/ DLiveTimeout
    \/ DNativePoll
    \/ DNativeTimeout
    \/ DFound
    \/ DConfirmationPoll
    \/ DConfirmationTimeout
    \/ DDeadline
    \/ MineEmpty
    \/ MinePayment

SpecDirect == InitDirect /\ [][NextDirect]_vars

\* one step of the direct monitor's process
DirectStep ==
    \/ DStart
    \/ DHistoricalHead
    \/ DHistoricalChunk
    \/ DSubscribe
    \/ DLiveLog
    \/ DLiveTimeout
    \/ DNativePoll
    \/ DNativeTimeout
    \/ DFound
    \/ DConfirmationPoll
    \/ DConfirmationTimeout

\* the direct monitor under fair scheduling: the process keeps being run
\* (its awaits return and its timers fire) and the clock reaches the deadline
SpecDirectFair ==
    /\ SpecDirect
    /\ WF_vars(DirectStep)
    /\ WF_vars(DDeadline)

\* the direct monitor with its process scheduled fairly and the clock left
\* free: the deadline need never come
SpecDirectLive ==
    /\ SpecDirect
    /\ WF_vars(DirectStep)

(***************************************************************************)
(* The bridge monitor on its own: one record, one monitor process, started *)
(* from stage 1 or resumed at stage 3.                                     *)
(***************************************************************************)
\* a tenth of a coin
Dime == [ num |-> 1, scale |-> 1 ]

\* --resume-stage3 and --stage3-lookback: a first run, a resumed run with the
\* default look-back of 2000 blocks, a resumed run told to look back no
\* further than the head
BridgeArgs ==
    { [ resume |-> FALSE, lookback |-> 2000 ],
      [ resume |-> TRUE, lookback |-> 2000 ],
      [ resume |-> TRUE, lookback |-> 0 ] }

\* the record as the monitor finds it: fresh, or left at bridging by a
\* monitor that went down after stage 2
BridgeRecordAtLaunch(amount, resume) ==
    LET rec == MonitoredBridgeRecord("solana", "polygon", "USDC", amount,
                                     SettlementWallet)
    IN IF resume
       THEN [ rec EXCEPT !.status = "bridging", !.deposit_tx_sig = "sig" ]
       ELSE rec

InitBridge ==
    /\ RouterDone({ << "bridge", BridgeId >> })
    /\ bArgs \in BridgeArgs
    /\ \E amount \in {Dust, Dime} :
         pending = [ id \in PaymentIds |->
                       IF id = BridgeId
                       THEN BridgeRecordAtLaunch(amount, bArgs.resume)
                       ELSE NoRecord ]
    /\ blocks = << >>
    /\ dArgs = NoArgs
    /\ dm = DirectOff
    /\ bm = [ BridgeOff EXCEPT !.pc = "start" ]
    /\ solBalance = 0
    /\ notifications = {}
    /\ drain = NoDrain
    /\ otp = NoOtp

NextBridge ==
    \/ BStart
    \/ BPollDeposit
    \/ BDepositTimeout
    \/ BCallDepositV3
    \/ BStage3Start
    \/ BLiveLog
    \/ BSweepHead
    \/ BSweepChunk
    \/ BResolve
    \/ BFillTimeout
    \/ BDeadline
    \/ SolDeposit
    \/ SolTopUp
    \/ MineEmpty
    \/ MineFill

SpecBridge == InitBridge /\ [][NextBridge]_vars

\* the steps of main and of the promise it awaits
BridgeMainStep ==
    \/ BStart
    \/ BPollDeposit
    \/ BDepositTimeout
    \/ BCallDepositV3
    \/ BStage3Start
    \/ BResolve
    \/ BFillTimeout

\* the steps of the historical check, which runs beside the subscription
BridgeSweepStep == BSweepHead \/ BSweepChunk

\* the bridge monitor under fair scheduling of its tasks: main, the
\* subscription callback and the historical check each keep being run; the
\* clock and the chain are left free, so the deadline need never come. One
\* payment amount, and relayers that fill with the exact output amount.
InitBridgeLive ==
    /\ InitBridge
    /\ pending[BridgeId].amount = Dust

NextBridgeLive ==
    \/ BStart
    \/ BPollDeposit
    \/ BDepositTimeout
    \/ BCallDepositV3
    \/ BStage3Start
    \/ BLiveLog
    \/ BSweepHead
    \/ BSweepChunk
    \/ BResolve
    \/ BFillTimeout
    \/ BDeadline
    \/ SolDeposit
    \/ SolTopUp
    \/ MineEmpty
    \/ MineRelay

SpecBridgeLive ==
    /\ InitBridgeLive
    /\ [][NextBridgeLive]_vars
    /\ WF_vars(BridgeMainStep)
    /\ WF_vars(BLiveLog)
    /\ WF_vars(BridgeSweepStep)

(***************************************************************************)
(* Both monitors at work on the same settlement wallet and token, well     *)
(* before their deadlines: a direct payment awaited while a bridge payment *)
(* of the same amount is being filled.                                     *)
(***************************************************************************)
InitMonitors ==
    /\ RouterDone({ << "direct", DirectId >>, << "bridge", BridgeId >> })
    /\ dArgs = [ chain |-> "polygon", token |-> "USDC", amount |-> Dust,
                 wallet |-> LowerHex(SettlementWallet), confirmations |-> 1 ]
    /\ bArgs = [ resume |-> TRUE, lookback |-> 2000 ]
    /\ pending = [ id \in PaymentIds |->
                     IF id = DirectId
                     THEN DirectRecord(dArgs.chain, dArgs.token, dArgs.amount)
                     ELSE BridgeRecordAtLaunch(Dust, TRUE) ]
    /\ blocks = << >>
    /\ dm = [ DirectOff EXCEPT !.pc = "start" ]
    /\ bm = [ BridgeOff EXCEPT !.pc = "start" ]
    /\ solBalance = 0
    /\ notifications = {}
    /\ drain = NoDrain
    /\ otp = NoOtp

NextMonitors ==
    \/ DStart
    \/ DHistoricalHead
    \/ DHistoricalChunk
    \/ DSubscribe
    \/ DLiveLog
    \/ DFound
    \/ DConfirmationPoll
    \/ BStart
    \/ BStage3Start
    \/ BLiveLog
    \/ BSweepHead
    \/ BSweepChunk
    \/ BResolve
    \/ MineEmpty
    \/ MinePayment
    \/ MineFill

SpecMonitors == InitMonitors /\ [][NextMonitors]_vars

(***************************************************************************)
(* The bridge monitor with restarts: after the process has ended, the      *)
(* monitor is started again for the same payment.                          *)
(***************************************************************************)
InitRestart ==
    /\ RouterDone({ << "bridge", BridgeId >> })
    /\ bArgs \in BridgeArgs
    /\ pending = [ id \in PaymentIds |->
                     IF id = BridgeId
                     THEN BridgeRecordAtLaunch(Dust, bArgs.resume)
                     ELSE NoRecord ]
    /\ blocks = << >>
    /\ dArgs = NoArgs
    /\ dm = DirectOff
    /\ bm = [ BridgeOff EXCEPT !.pc = "start" ]
    /\ solBalance = 0
    /\ notifications = {}
    /\ drain = NoDrain
    /\ otp = NoOtp

NextRestart ==
    \/ BStart
    \/ BPollDeposit
    \/ BDepositTimeout
    \/ BCallDepositV3
    \/ BStage3Start
    \/ BLiveLog
    \/ BSweepHead
    \/ BSweepChunk
    \/ BResolve
    \/ BFillTimeout
    \/ BDeadline
    \/ BRestart
    \/ SolDeposit
    \/ SolTopUp
    \/ MineEmpty
    \/ MineFill

SpecRestart == InitRestart /\ [][NextRestart]_vars

(***************************************************************************)
(* The notification queue: bridge monitors enqueue, the orchestrator's     *)
(* Step 1.5 drains.                                                        *)
(***************************************************************************)
\* a second bridge payment, whose monitor runs beside the one of BridgeId
SecondBridgeId == "pay_1"

\* Step 1.5, first sub-agent (ls, then cat of every *.json): the files are
\* read; with none there is nothing to include and nothing to delete
DrainRead ==
    /\ drain.pc = "idle"
    /\ Len(drain.returned) < MaxDrains
    /\ IF notifications = {}
       THEN drain' = [ drain EXCEPT !.returned = Append(@, {}) ]
       ELSE drain' = [ drain EXCEPT !.pc = "delete", !.read = notifications ]
    /\ UNCHANGED << orchVars, blocks, dArgs, dm, bArgs, bm, solBalance,
                    notifications, otp >>

\* Step 1.5, second sub-agent (rm -f notifications/*.json): every file in
\* the directory at that moment is deleted; what was read is returned as
\* pending_confirmations
DrainDelete ==
    /\ drain.pc = "delete"
    /\ notifications' = {}
    /\ drain' = [ pc |-> "idle", read |-> {},
                  returned |-> Append(drain.returned, drain.read) ]
    /\ UNCHANGED << orchVars, blocks, dArgs, dm, bArgs, bm, solBalance, otp >>

\* the monitor of the second bridge payment at the end of its stage 3 (its
\* earlier steps are those of the first): confirmed is written, then the
\* notification
BConfirmSecond ==
    /\ pending[SecondBridgeId].kind = "bridge"
    /\ pending[SecondBridgeId].status = "bridging"
    /\ pending' = [ pending EXCEPT ![SecondBridgeId].status = "confirmed" ]
    /\ notifications' = Enqueue(notifications, BridgeNotification(SecondBridgeId))
    /\ UNCHANGED << routerVars, blocks, dArgs, dm, bArgs, bm, solBalance, drain, otp >>

\* two bridge payments at stage 3 and an orchestrator that serves requests
InitNotify ==
    /\ RouterDone({ << "bridge", SecondBridgeId >>, << "bridge", BridgeId >> })
    /\ bArgs = [ resume |-> TRUE, lookback |-> 2000 ]
    /\ pending = [ id \in PaymentIds |-> BridgeRecordAtLaunch(Dust, TRUE) ]
    /\ blocks = << >>
    /\ dArgs = NoArgs
    /\ dm = DirectOff
    /\ bm = [ BridgeOff EXCEPT !.pc = "start" ]
    /\ solBalance = 0
    /\ notifications = {}
    /\ drain = NoDrain
    /\ otp = NoOtp

NextNotify ==
    \/ BStart
    \/ BStage3Start
    \/ BLiveLog
    \/ BSweepHead
    \/ BSweepChunk
    \/ BResolve
    \/ BFillTimeout
    \/ BDeadline
    \/ BConfirmSecond
    \/ DrainRead
    \/ DrainDelete
    \/ MineEmpty
    \/ MineFill

SpecNotify == InitNotify /\ [][NextNotify]_vars

(***************************************************************************)
(* The bridge monitor launched at creation, and a second instance started  *)
(* by hand for the same payment.                                           *)
(***************************************************************************)
InitManual ==
    /\ RouterDone({ << "bridge", BridgeId >> })
    /\ bArgs = [ resume |-> FALSE, lookback |-> 2000 ]
    /\ pending = [ id \in PaymentIds |->
                     IF id = BridgeId
                     THEN BridgeRecordAtLaunch(Dust, FALSE)
                     ELSE NoRecord ]
    /\ blocks = << >>
    /\ dArgs = NoArgs
    /\ dm = DirectOff
    /\ bm = [ BridgeOff EXCEPT !.pc = "start" ]
    /\ solBalance = 0
    /\ notifications = {}
    /\ drain = NoDrain
    /\ otp = NoOtp

NextManual ==
    \/ BStart
    \/ BPollDeposit
    \/ BDepositTimeout
    \/ BCallDepositV3
    \/ BStage3Start
    \/ BLiveLog
    \/ BSweepHead
    \/ BSweepChunk
    \/ BResolve
    \/ BFillTimeout
    \/ BDeadline
    \/ BManualStart
    \/ BTwinResolve
    \/ BTwinTimeout
    \/ SolDeposit
    \/ SolTopUp
    \/ MineEmpty
    \/ MineFill

SpecManual == InitManual /\ [][NextManual]_vars

(***************************************************************************)
(* The record file under a concurrent reader: the bridge monitor writes    *)
(* its record with writeFileSync while the orchestrator serves             *)
(* check_payment for the same payment.                                     *)
(***************************************************************************)
\* the record file between open(path, 'w'), which truncates it, and the write
\* of the new text
EmptyFile == [ kind |-> "empty" ]

\* check_payment, "cat pending/<payment_id>.json" and "Parse the JSON and
\* return the payment status": the status read, not_found when there is no
\* file, and nothing that parses when the file is empty
ReadRecordFile(file) ==
    IF file = NoRecord THEN "not_found"
    ELSE IF file = EmptyFile THEN "unparseable"
    ELSE file.status

\* the orchestrator serves a check_payment request for the bridge payment
CheckPayment ==
    /\ opc = "idle"
    /\ response' = [ status |-> ReadRecordFile(pending[BridgeId]),
                     violation |-> NoValue ]
    /\ UNCHANGED << boundary, version, opc, request, route, served, pending,
                    monitors, newId, atReceive, monVars >>

\* main after the fill: writeFileSync(recordPath, ...) of the confirmed
\* record, first half: the file is opened with flag 'w' and is empty
BResolveOpen ==
    /\ bm.pc = "waiting"
    /\ bm.fill # NoFill
    /\ \E rpcOk \in BOOLEAN :
         LET confs == IF rpcOk THEN BlockNumber - bm.fill.blockNumber + 1 ELSE 1
             rec == [ bm.rec EXCEPT !.status = "confirmed",
                                    !.tx_hash = bm.fill.txHash,
                                    !.confirmations = confs ]
         IN bm' = [ BridgeExit(NoValue) EXCEPT !.pc = "writing", !.rec = rec ]
    /\ pending' = [ pending EXCEPT ![BridgeId] = EmptyFile ]
    /\ UNCHANGED << solBalance, notifications, bridgeFrame >>

\* second half: the text of the record is written and the file closed; main
\* goes on to the notification and ends
BResolveWrite ==
    /\ bm.pc = "writing"
    /\ pending' = WriteRecord(bm.rec)
    /\ bm' = BridgeExit("0")
    /\ notifications' = Enqueue(notifications, BridgeNotification(BridgeId))
    /\ UNCHANGED << solBalance, bridgeFrame >>

\* a resumed monitor on a record at bridging, and check_payment requests
InitStore ==
    /\ InitBridgeLive
    /\ bArgs.resume

NextStore ==
    \/ BStart
    \/ BStage3Start
    \/ BLiveLog
    \/ BSweepHead
    \/ BSweepChunk
    \/ BResolveOpen
    \/ BResolveWrite
    \/ BFillTimeout
    \/ BDeadline
    \/ MineEmpty
    \/ MineRelay
    \/ CheckPayment

SpecStore == InitStore /\ [][NextStore]_vars

(***************************************************************************)
(* The historical scans on their own: a monitor starts on a chain that has *)
(* grown since the record was written, with at most one block that holds  *)
(* the awaited transfer or fill, and runs its historical loop; the         *)
(* requests of the loop are kept as a history.                             *)
(***************************************************************************)
\* chains of k blocks, empty but for at most one block that holds event
ChainsWith(event) ==
    UNION { { [ i \in 1..k |-> EmptyBlock ] }
              \cup { [ i \in 1..k |-> IF i = j THEN event ELSE EmptyBlock ] :
                       j \in 1..k } : k \in 0..MaxMined }

\* a direct payment of one coin, awaited and perhaps already paid
InitScanDirect ==
    /\ RouterDone({ << "direct", DirectId >> })
    /\ dArgs = [ chain |-> "polygon", token |-> "USDC", amount |-> OneCoin,
                 wallet |-> LowerHex(SettlementWallet), confirmations |-> 0 ]
    /\ pending = [ id \in PaymentIds |->
                     IF id = DirectId
                     THEN DirectRecord(dArgs.chain, dArgs.token, dArgs.amount)
                     ELSE NoRecord ]
    /\ blocks \in ChainsWith(TransferBlock(TokenAddress("polygon", "USDC"), Payer,
                                           SettlementWallet,
                                           ParseUnits(OneCoin,
                                                      OnChainDecimals("USDC"))))
    /\ dm = [ DirectOff EXCEPT !.pc = "start", !.scan.on = TRUE ]
    /\ bArgs = NoBridgeArgs
    /\ bm = BridgeOff

\* a bridge payment at bridging, perhaps already filled, and a monitor
\* resumed with some look-back
InitScanBridge ==
    /\ RouterDone({ << "bridge", BridgeId >> })
    /\ bArgs \in { [ resume |-> TRUE, lookback |-> l ] : l \in 0..MaxLookback }
    /\ pending = [ id \in PaymentIds |->
                     IF id = BridgeId THEN BridgeRecordAtLaunch(Dust, TRUE)
                     ELSE NoRecord ]
    /\ LET rec == BridgeRecordAtLaunch(Dust, TRUE) IN
       blocks \in ChainsWith(FillBlock(rec.spoke_pool_destination,
                                       AcrossChainIds("solana"), rec.wallet,
                                       rec.output_token_address,
                                       rec.raw_output_amount))
    /\ dArgs = NoArgs
    /\ dm = DirectOff
    /\ bm = [ BridgeOff EXCEPT !.pc = "start", !.scan.on = TRUE ]

InitScan ==
    /\ InitScanDirect \/ InitScanBridge
    /\ solBalance = 0
    /\ notifications = {}
    /\ drain = NoDrain
    /\ otp = NoOtp

NextScan ==
    \/ DStart
    \/ DHistoricalHead
    \/ DHistoricalChunk
    \/ BStart
    \/ BStage3Start
    \/ BSweepHead
    \/ BSweepChunk

SpecScan == InitScan /\ [][NextScan]_vars

(***************************************************************************)
(* Onboarding: one OTP issued by send-otp.ts and the verify-otp.ts calls   *)
(* made for it, each call a process of its own.                            *)
(***************************************************************************)
\* the code generateOTP returned, and the codes a caller may submit
StoredOtp == "482910"
OtpGuesses == { StoredOtp, "000000" }

\* send-otp.ts: the record it writes
OtpRecord(code) == [ otp_plain |-> code, attempts |-> 0, max_attempts |-> 3 ]

\* verify-otp.ts: the test on the attempts recorded
MaxAttemptsReached(rec) == rec.attempts >= rec.max_attempts

\* what the onboarding steps leave alone
otpFrame ==
    << orchVars, blocks, dArgs, dm, bArgs, bm, solBalance, notifications, drain >>

\* another verify-otp.ts process holds a record it has read and not yet
\* acted on
OtherReading(p) == \E q \in Verifiers \ {p} : otp.procs[q].pc = "read"

\* verify-otp.ts --code code, up to readFileSync: no file ends the call, else
\* the process holds the record it read
VerifyRead(p, code) ==
    /\ otp.procs[p].pc = "idle"
    /\ otp.calls < MaxCalls
    /\ otp' = [ otp EXCEPT
           !.calls = @ + 1,
           !.raced = @ \/ (otp.file # NoOtpFile /\ OtherReading(p)),
           !.procs[p] =
               IF otp.file = NoOtpFile
               THEN [ pc |-> "idle", code |-> code, rec |-> NoOtpFile,
                      result |-> "no_request" ]
               ELSE [ pc |-> "read", code |-> code, rec |-> otp.file,
                      result |-> NoValue ] ]
    /\ UNCHANGED otpFrame

\* verify-otp.ts after the read: expiry, attempts, comparison; the file is
\* unlinked, or the record read is written back with attempts + 1
VerifyDecide(p) ==
    /\ otp.procs[p].pc = "read"
    /\ LET proc == otp.procs[p]
           rec == proc.rec
           end(result) == [ proc EXCEPT !.pc = "idle", !.rec = NoOtpFile,
                                        !.result = result ]
       IN IF otp.late
          THEN otp' = [ otp EXCEPT !.file = NoOtpFile, !.procs[p] = end("expired") ]
          ELSE IF MaxAttemptsReached(rec)
          THEN otp' = [ otp EXCEPT !.file = NoOtpFile,
                                   !.procs[p] = end("max_attempts_exceeded") ]
          ELSE IF rec.otp_plain = proc.code
          THEN otp' = [ otp EXCEPT !.file = NoOtpFile, !.procs[p] = end("valid") ]
          ELSE otp' = [ otp EXCEPT
                          !.file = [ rec EXCEPT !.attempts = @ + 1 ],
                          !.compared = @ + 1,
                          !.procs[p] = end("invalid") ]
    /\ UNCHANGED otpFrame

\* the clock passes expires_at (five minutes after send-otp.ts)
OtpExpire ==
    /\ ~otp.late
    /\ otp' = [ otp EXCEPT !.late = TRUE ]
    /\ UNCHANGED otpFrame

Verify == \E p \in Verifiers, code \in OtpGuesses : VerifyRead(p, code)
Decide == \E p \in Verifiers : VerifyDecide(p)

\* send-otp.ts has run once, for a business that is being onboarded
InitOtp ==
    /\ boundary = [ OnboardedDoc EXCEPT !.status = "pending_onboarding",
                                        !.onboarded = FALSE ]
    /\ version = 1
    /\ served = 0
    /\ opc = "idle"
    /\ request = NoRequest
    /\ route = NoRoute
    /\ response = NoResponse
    /\ pending = [ id \in PaymentIds |-> NoRecord ]
    /\ monitors = {}
    /\ newId = NoValue
    /\ atReceive = << [ id \in PaymentIds |-> NoRecord ], {} >>
    /\ blocks = << >>
    /\ dArgs = NoArgs
    /\ dm = DirectOff
    /\ bArgs = NoBridgeArgs
    /\ bm = BridgeOff
    /\ solBalance = 0
    /\ notifications = {}
    /\ drain = NoDrain
    /\ otp = [ NoOtp EXCEPT !.file = OtpRecord(StoredOtp) ]

NextOtp ==
    \/ Verify
    \/ Decide
    \/ OtpExpire

SpecOtp == InitOtp /\ [][NextOtp]_vars

(***************************************************************************)
(* bridge-payment.ts on its own: the relay fee and the raw amounts of the  *)
(* record it writes, and stage 1 of the monitor launched on that record.   *)
(* A human amount is a JavaScript number; it is kept here scaled by        *)
(* 10^decimals as units + frac / FracDen, units counting base units of the *)
(* token, so that Math.round has something to round.                       *)
(***************************************************************************)
FracDen == 100000

\* config.bridge.estimatedRelayFeePct, 0.0012, in parts per ten thousand
EstimatedRelayFeePct == 12
\* config.bridge.minRelayFeeBuffer, 0.50 coins of six decimals
MinRelayFeeBuffer == [ units |-> 500000, frac |-> 0 ]

\* amount * config.bridge.estimatedRelayFeePct, exact for amounts with at
\* most one digit below the base unit
PctFee(amount) ==
    LET whole == MulDiv(amount.units, EstimatedRelayFeePct, 10000)
        rest  == (((amount.units % 10000) * EstimatedRelayFeePct) % 10000)
                     * (FracDen \div 10000)
                 + (amount.frac \div 10000) * EstimatedRelayFeePct
    IN [ units |-> whole + rest \div FracDen, frac |-> rest % FracDen ]

\* Math.max of two numbers
MathMax(x, y) ==
    IF x.units > y.units \/ (x.units = y.units /\ x.frac >= y.frac) THEN x ELSE y

\* a fee that ignores the minimum buffer
RelayFeePctOnly(amount) == PctFee(amount)
\* relayFee = Math.max(pctFee, config.bridge.minRelayFeeBuffer)
RelayFee(amount) == MathMax(PctFee(amount), MinRelayFeeBuffer)

\* amount + relayFee
AmountToSend(amount, relayFee) ==
    LET f == amount.frac + relayFee.frac
    IN [ units |-> amount.units + relayFee.units + f \div FracDen,
         frac |-> f % FracDen ]

\* Math.round: to the nearest integer, a half goes up
MathRound(x) == x.units + (IF 2 * x.frac >= FracDen THEN 1 ELSE 0)

\* toRawAmount(human, decimals) = BigInt(Math.round(human * 10 ** decimals))
\* of a number already scaled by 10 ** decimals
ToRawAmountOf(scaled) == MathRound(scaled)

\* !amount: parseFloat gave 0 (or NaN)
AmountMissing(amount) == amount.units = 0 /\ amount.frac = 0

\* config.bridge.fillDeadlineOffsetSec, six hours
FillDeadlineOffsetSec == 21600

\* Math.floor(Date.now() / 1000) when the record is made: a time of 2023 and
\* one close to the largest second a signed 32-bit number holds
QuoteTimes == { 1700000000, 2147000000 }

\* the record bridge-payment.ts writes for a Solana payment settled on
\* Polygon, with the fields the monitor reads
QuotedBridgeRecord(amount, now) ==
    [ kind |-> "bridge", status |-> "waiting_deposit",
      chain |-> "polygon", source_chain |-> "solana",
      token |-> "USDC", amount |-> amount,
      tx_hash |-> NoValue, confirmations |-> 0,
      wallet |-> SettlementWallet,
      spoke_pool_destination |-> SpokePools("polygon"),
      output_token_address |-> TokenAddress("polygon", "USDC"),
      raw_input_amount |-> ToRawAmountOf(AmountToSend(amount, RelayFee(amount))),
      raw_output_amount |-> ToRawAmountOf(amount),
      raw_relay_fee |-> ToRawAmountOf(RelayFee(amount)),
      input_token_mint |-> TokenAddress("solana", "USDC"),
      destination_chain_id |-> 137,
      quote_timestamp |-> now,
      fill_deadline |-> now + FillDeadlineOffsetSec,
      deposit_tx_sig |-> NoValue ]

\* --amount as parseFloat reads it: whole base units from a dust amount to a
\* thousand coins, on both sides of the amount at which the percentage fee
\* overtakes the buffer and of the amount at which 1% of the input exceeds
\* the fee, each with one more decimal digit than the token has
QuoteUnits ==
    { 0, 1, 150, 100000, 20000000, 49500000, 49500001, 416666666, 416666667,
      500000250, 1000000000 }
QuoteAmounts ==
    { [ units |-> u, frac |-> t * (FracDen \div 10) ] : u \in QuoteUnits, t \in 0..9 }

\* bridge-payment.ts, main: arguments checked, record written
BridgePaymentMain ==
    /\ opc = "exec1"
    /\ IF AmountMissing(request.amount)
       THEN /\ response' = [ status |-> "error", violation |-> NoValue ]
            /\ opc' = "done"
            /\ UNCHANGED << pending, newId >>
       ELSE /\ \E now \in QuoteTimes :
                 pending' = [ pending EXCEPT
                     ![BridgeId] = QuotedBridgeRecord(request.amount, now) ]
            /\ newId' = BridgeId
            /\ opc' = "exec2"
            /\ UNCHANGED response
    /\ UNCHANGED << boundary, version, request, route, served, monitors,
                    atReceive, monVars >>

\* bridge-executor, step 2: the monitor is launched on the new record, with
\* or without SOLANA_SOL_DISPENSER_KEY in its environment
QuoteLaunch ==
    /\ opc = "exec2"
    /\ bm.pc = "off"
    /\ monitors' = monitors \cup { << "bridge", newId >> }
    /\ \E key \in BOOLEAN :
         bm' = [ BridgeOff EXCEPT !.pc = "start", !.ix.dispenserKey = key ]
    /\ opc' = "done"
    /\ UNCHANGED << boundary, version, request, route, response, served,
                    pending, newId, atReceive, blocks, dArgs, dm, bArgs,
                    solBalance, notifications, drain, otp >>

\* the customer pays into the deposit address: one unit short of the accepted
\* minimum, the minimum, one unit short of the output amount, the full input
QuoteDeposit ==
    /\ bm.pc = "deposit"
    /\ solBalance = 0
    /\ LET rec == pending[BridgeId] IN
         solBalance' \in { b \in { MinExpected(rec.raw_input_amount) - 1,
                                   MinExpected(rec.raw_input_amount),
                                   rec.raw_output_amount - 1,
                                   rec.raw_input_amount } : b > 0 }
    /\ UNCHANGED << pending, routerVars, blocks, dArgs, dm, bArgs, bm,
                    notifications, drain, otp >>

\* main, decrypt, and callDepositV3 up to its first transaction: the key
\* does not decrypt and the process ends, or the transactions to send are
\* settled
BCallDepositV3Begin ==
    /\ bm.pc = "depositV3"
    /\ \/ bm' = [ bm EXCEPT !.pc = "stage2",
                            !.ix.todo = TxPlan(bm.ix.dispenserKey) ]
       \/ bm' = BridgeExit("1")
    /\ UNCHANGED << pending, solBalance, notifications, bridgeFrame >>

\* the delegate seed and the approved amount are fixed before the approval is
\* sent (2d, 2e), the deposit data before the deposit is sent (2f)
BuildTx(ix, tx, rec, actualInputAmount) ==
    LET p == DepositParams(rec, TempKey, actualInputAmount) IN
    CASE tx = "approve" -> [ ix EXCEPT !.seed = DelegateSeedData(p),
                                       !.approved = actualInputAmount ]
      [] tx = "deposit" -> [ ix EXCEPT !.data = DepositData(p) ]
      [] OTHER -> ix

\* sendAndPollConfirm, sendRawTransaction: the next transaction is built and
\* sent, or the node rejects it and callDepositV3 throws (main exits with 1)
BSendTx ==
    /\ bm.pc = "stage2"
    /\ bm.ix.sent = NoValue
    /\ bm.ix.todo # << >>
    /\ LET tx == Head(bm.ix.todo)
           built == BuildTx(bm.ix, tx, bm.rec, bm.actualInput) IN
       \/ bm' = [ bm EXCEPT !.ix = [ built EXCEPT
                    !.sent = tx, !.log = Append(@, << "sent", tx >>) ] ]
       \/ bm' = [ BridgeExit("1") EXCEPT !.ix = [ built EXCEPT
                    !.log = Append(@, << "rejected", tx >>) ] ]
    /\ UNCHANGED << pending, solBalance, notifications, bridgeFrame >>

\* pollConfirm: the transaction sent is confirmed or finalized; after the
\* last one callDepositV3 returns and main writes bridging
BPollConfirmed ==
    /\ bm.pc = "stage2"
    /\ bm.ix.sent # NoValue
    /\ LET ix == [ bm.ix EXCEPT !.sent = NoValue, !.todo = Tail(@),
                                !.log = Append(@, << "confirmed", bm.ix.sent >>) ]
           rec == [ bm.rec EXCEPT !.status = "bridging", !.deposit_tx_sig = "sig" ]
       IN IF ix.todo # << >>
          THEN /\ bm' = [ bm EXCEPT !.ix = ix, !.txs = Append(@, bm.ix.sent) ]
               /\ UNCHANGED << pending, solBalance >>
          ELSE /\ bm' = [ bm EXCEPT !.ix = ix, !.txs = Append(@, bm.ix.sent),
                                    !.pc = "stage3", !.rec = rec ]
               /\ pending' = WriteRecord(rec)
               /\ solBalance' = solBalance - bm.actualInput
    /\ UNCHANGED << notifications, bridgeFrame >>

\* pollConfirm: the status carries an error, getSignatureStatuses throws, or
\* 120 s pass without confirmation; callDepositV3 throws and main exits
\* with 1, the record untouched
BPollFailed ==
    /\ bm.pc = "stage2"
    /\ bm.ix.sent # NoValue
    /\ \E how \in {"failed", "unconfirmed"} :
         bm' = [ BridgeExit("1") EXCEPT !.ix = [ bm.ix EXCEPT
                   !.sent = NoValue, !.log = Append(@, << how, bm.ix.sent >>) ] ]
    /\ UNCHANGED << pending, solBalance, notifications, bridgeFrame >>

InitQuote ==
    /\ boundary = OnboardedDoc
    /\ version = 1
    /\ served = 1
    /\ opc = "exec1"
    /\ request \in { [ action |-> "create_payment_link", chain |-> "solana",
                       token |-> "USDC", amount |-> a ] : a \in QuoteAmounts }
    /\ route = [ route |-> "bridge", settlement_chain |-> "polygon" ]
    /\ response = NoResponse
    /\ pending = [ id \in PaymentIds |-> NoRecord ]
    /\ monitors = {}
    /\ newId = NoValue
    /\ atReceive = << [ id \in PaymentIds |-> NoRecord ], {} >>
    /\ blocks = << >>
    /\ dArgs = NoArgs
    /\ dm = DirectOff
    /\ bArgs = NoBridgeArgs
    /\ bm = BridgeOff
    /\ solBalance = 0
    /\ notifications = {}
    /\ drain = NoDrain
    /\ otp = NoOtp

NextQuote ==
    \/ BridgePaymentMain
    \/ QuoteLaunch
    \/ BStart
    \/ QuoteDeposit
    \/ BPollDeposit
    \/ BDeadline
    \/ BDepositTimeout
    \/ BCallDepositV3Begin
    \/ BSendTx
    \/ BPollConfirmed
    \/ BPollFailed

SpecQuote == InitQuote /\ [][NextQuote]_vars

(***************************************************************************)
(* The look-back of the direct monitor on its own: payments of different   *)
(* ages on Polygon and on Arbitrum, chains of different heights.           *)
(***************************************************************************)
\* blocks mined since StartBlock when the monitor reads the head
WindowMined == { 0, 4, 8, 160, 170 }
\* whole seconds between payment.created_at and the start of the scan
WindowAges == { 0, 1, 2, 3, 4, 9, 20, 100, 279, 280, 281, 400 }

InitWindow ==
    /\ RouterDone({ << "direct", DirectId >> })
    /\ dArgs \in { [ chain |-> c, token |-> "USDC", amount |-> OneCoin,
                     wallet |-> LowerHex(SettlementWallet), confirmations |-> 0 ] :
                   c \in {"polygon", "arbitrum"} }
    /\ pending = [ id \in PaymentIds |->
                     IF id = DirectId
                     THEN DirectRecord(dArgs.chain, dArgs.token, dArgs.amount)
                     ELSE NoRecord ]
    /\ blocks \in { [ i \in 1..k |-> EmptyBlock ] : k \in WindowMined }
    /\ dm = [ DirectOff EXCEPT !.pc = "start", !.scan.on = TRUE ]
    /\ bArgs = NoBridgeArgs
    /\ bm = BridgeOff
    /\ solBalance = 0
    /\ notifications = {}
    /\ drain = NoDrain
    /\ otp = NoOtp

DWindowHead == DHistoricalHeadAged(WindowAges)

NextWindow ==
    \/ DStart
    \/ DWindowHead

SpecWindow == InitWindow /\ [][NextWindow]_vars

(***************************************************************************)
(* Claims about the request router.                                        *)
(***************************************************************************)
\* step 3 has run for the request being processed
RouteDecided == route.route # NoValue

C2_NoRecordNoMonitor ==
    response.status \in {"not_ready", "rejected"} =>
        /\ pending = atReceive[1]
        /\ monitors = atReceive[2]

\* a rejected request after an earlier one created a record and a monitor
C2_Witness ==
    /\ opc = "done"
    /\ response.status = "rejected"
    /\ monitors # {}
    /\ \E id \in PaymentIds : pending[id].kind # NoValue

\* C3: when status is not active or business.onboarded is not true the
\* request is answered not_ready and neither routing, validation, record
\* creation nor monitor launch is performed for it.
C3_NotReady ==
    opc \in {"step3", "exec1", "exec2", "done"} =>
        IF boundary.status # "active" \/ boundary.onboarded # TRUE
        THEN /\ opc = "done"
             /\ response = [ status |-> "not_ready", violation |-> NoValue ]
             /\ route = NoRoute
             /\ pending = atReceive[1]
             /\ monitors = atReceive[2]
        ELSE response.status # "not_ready"

\* an active document whose business is not onboarded answers not_ready
C3_Witness ==
    /\ opc = "done"
    /\ response.status = "not_ready"
    /\ boundary.status = "active"
    /\ boundary.onboarded = FALSE

\* C4: a request that passed chain routing is rejected with violation token
\* iff its token, compared case-insensitively, is not in allowed_tokens;
\* otherwise with violation amount iff max_single_payment > 0 and the amount
\* exceeds it; amount = max_single_payment is accepted and
\* max_single_payment = 0 accepts every amount.
C4_TokenAmount ==
    route.route \in {"direct", "bridge"} =>
        LET tokenOk == \E t \in boundary.allowed_tokens :
                           ToUpper(t) = ToUpper(request.token)
            overLimit == /\ boundary.max_single_payment > 0
                         /\ request.amount > boundary.max_single_payment
        IN  /\ (response.violation = "token") <=> ~tokenOk
            /\ (response.violation = "amount") <=> (tokenOk /\ overLimit)
            /\ (tokenOk /\ ~overLimit) => response.status # "rejected"
            /\ (~tokenOk \/ overLimit) => response.status = "rejected"

\* amount = max_single_payment, token in another case: accepted
C4_Witness ==
    /\ opc = "exec1"
    /\ request.amount = boundary.max_single_payment
    /\ request.token = "usdc"
    /\ boundary.allowed_tokens = {"USDC"}

\* C5: every decision is taken against BOUNDARY.md as it is on disk at that
\* step of that request, never against a value read earlier.
C5_FreshPolicy ==
    [][ /\ (opc = "step2" /\ opc' # "step2") =>
              ((response'.status = "not_ready") <=>
                   ~(boundary.status = "active" /\ boundary.onboarded = TRUE))
        /\ (opc = "step3" /\ opc' # "step3") =>
              /\ response'.violation = Violation(boundary, request)
              /\ route' = DetermineRoute(boundary, request) ]_vars

\* request N (USDC) created a record, the owner removed USDC, request N+1
\* (USDC) is rejected with violation token
C5_Witness ==
    /\ version > 1
    /\ opc = "done"
    /\ request.token = "usdc"
    /\ response = [ status |-> "rejected", violation |-> "token" ]
    /\ \E id \in PaymentIds : pending[id].kind # NoValue /\ pending[id].token = "USDC"

(***************************************************************************)
(* Claims about the direct monitor.                                        *)
(***************************************************************************)
\* the record the direct monitor works on
DirectRec == pending[DirectId]

\* the block whose transaction the record names in tx_hash
RecordedBlocks ==
    { n \in (StartBlock + 1)..BlockNumber : TxHash(n) = DirectRec.tx_hash }

\* the expected raw amount of an ERC-20 payment (six decimals)
ExpectedRaw == dArgs.amount.num * Pow10(6 - dArgs.amount.scale)

\* C6 (as stated): a record in confirming or confirmed names a transfer to
\* the settlement wallet, of the payment's token, whose value v satisfies
\* 0.99 * expected <= v <= 1.10 * expected, on the historical, the live and
\* the native path alike.
C6_WindowOnEveryPath ==
    DirectRec.status \in {"confirming", "confirmed"} =>
        \E n \in RecordedBlocks :
            LET b == BlockAt(n) IN
            /\ b.to = LowerHex(SettlementWallet)
            /\ IF DirectRec.token \in NativeTokens
               THEN /\ b.type = "native"
                    /\ b.value * Pow10(dArgs.amount.scale) * 100 >= 99 * 100 * dArgs.amount.num
                    /\ b.value * Pow10(dArgs.amount.scale) * 100 <= 110 * 100 * dArgs.amount.num
               ELSE /\ b.address = LowerHex(TokenAddress(DirectRec.chain, DirectRec.token))
                    /\ 100 * b.value >= 99 * ExpectedRaw
                    /\ 100 * b.value <= 110 * ExpectedRaw

\* C6 (amended): a record in confirming or confirmed names a transfer to the
\* settlement wallet.  On the historical and the live path it is a Transfer
\* log of the payment's token contract whose value v satisfies
\* floor(0.99 * expected) <= v <= floor(1.10 * expected) in integer
\* arithmetic; on the native path it is a transaction with
\* v >= 0.99 * amount and no upper bound.
C6_MatchedTransfer ==
    DirectRec.status \in {"confirming", "confirmed"} =>
        \E n \in RecordedBlocks :
            LET b == BlockAt(n) IN
            /\ b.to = LowerHex(SettlementWallet)
            /\ dm.found.blockNumber = n
            /\ IF DirectRec.token \in NativeTokens
               THEN /\ b.type = "native"
                    /\ dm.found.path = "native"
                    /\ b.value * Pow10(dArgs.amount.scale) >= 99 * dArgs.amount.num
               ELSE /\ b.address = LowerHex(TokenAddress(DirectRec.chain, DirectRec.token))
                    /\ dm.found.path \in {"historical", "live"}
                    /\ b.value >= (99 * ExpectedRaw) \div 100
                    /\ b.value <= (110 * ExpectedRaw) \div 100

\* a native payment of twice the amount has been matched
C6_Witness ==
    /\ DirectRec.status = "confirmed"
    /\ dm.found.path = "native"
    /\ dm.found.value * Pow10(dArgs.amount.scale) > 110 * dArgs.amount.num

\* the SpokePool addresses of the configuration, as they appear on chain
ConfiguredSpokePools ==
    { "0x9295ee1d8c5b022be115a2ad3c30c72e34e7f096",
      "0xe35e9842fceaca96570b734083f4a58e8f7c5f2a" }

\* C7: with a bridge monitor at work on the same wallet and token, the
\* transfer a direct monitor settles on, on the historical or the live
\* path, never has a configured SpokePool as its sender.
C7_NeverMatchesBridgeFill ==
    /\ dm.found.path \in {"historical", "live"} =>
           /\ dm.found.from \notin ConfiguredSpokePools
           /\ BlockAt(dm.found.blockNumber).from = dm.found.from
    /\ DirectRec.status \in {"confirming", "confirmed"} =>
           \A n \in RecordedBlocks : BlockAt(n).from \notin ConfiguredSpokePools

\* the bridge monitor confirmed on a fill that pays the wallet an amount
\* inside the direct monitor's window, and the direct monitor, having
\* passed over that fill's Transfer log, settled on a later payment
C7_Witness ==
    /\ pending[BridgeId].status = "confirmed"
    /\ DirectRec.status = "confirmed"
    /\ \E n \in (StartBlock + 1)..BlockNumber :
          /\ n < dm.found.blockNumber
          /\ TxHash(n) = pending[BridgeId].tx_hash
          /\ BlockAt(n).from \in ConfiguredSpokePools
          /\ BlockAt(n).to = dArgs.wallet
          /\ BlockAt(n).value >= dm.lo
          /\ BlockAt(n).value <= dm.hi

\* the record the bridge monitor works on, and the fill it names in tx_hash
BridgeRec == pending[BridgeId]
FilledBlocks ==
    { n \in (StartBlock + 1)..BlockNumber : TxHash(n) = BridgeRec.tx_hash }

\* C8 (as stated): a confirmed bridge record names a FilledRelay log emitted
\* by the record's destination SpokePool with originChainId the Solana
\* chain id, recipient the settlement wallet, outputToken the configured
\* output token and 0.99 * raw <= outputAmount <= 1.01 * raw.
C8_FillWindowExact ==
    BridgeRec.status = "confirmed" =>
        \E n \in FilledBlocks :
            LET b == BlockAt(n) IN
            /\ b.type = "fill"
            /\ b.from = "0x9295ee1d8c5b022be115a2ad3c30c72e34e7f096"
            /\ b.origin = "34268394551451"
            /\ b.to = LowerHex(SettlementWallet)
            /\ b.address = "0x3c499c542cef5e3811e1192ce70d8cc03d5c3359"
            /\ 100 * b.value >= 99 * BridgeRec.raw_output_amount
            /\ 100 * b.value <= 101 * BridgeRec.raw_output_amount

\* C8 (amended): a confirmed bridge record names a FilledRelay log emitted
\* by the record's destination SpokePool with originChainId the Solana
\* chain id, recipient the settlement wallet, outputToken the configured
\* output token and floor(0.99 * raw) <= outputAmount <= floor(1.01 * raw)
\* in integer arithmetic, whether the live subscription or the historical
\* check found it.
C8_MatchedFill ==
    BridgeRec.status = "confirmed" =>
        \E n \in FilledBlocks :
            LET b == BlockAt(n) IN
            /\ bm.fill.blockNumber = n
            /\ bm.fill.path \in {"live", "historical"}
            /\ b.type = "fill"
            /\ b.from = "0x9295ee1d8c5b022be115a2ad3c30c72e34e7f096"
            /\ b.origin = "34268394551451"
            /\ b.to = LowerHex(SettlementWallet)
            /\ b.address = "0x3c499c542cef5e3811e1192ce70d8cc03d5c3359"
            /\ b.value >= (9900 * BridgeRec.raw_output_amount) \div 10000
            /\ b.value <= (10100 * BridgeRec.raw_output_amount) \div 10000

\* a fill one unit short of 0.99 * raw, found by the historical check
C8_Witness ==
    /\ BridgeRec.status = "confirmed"
    /\ bm.fill.path = "historical"
    /\ 100 * BlockAt(bm.fill.blockNumber).value < 99 * BridgeRec.raw_output_amount

\* C9 (as stated): the record is confirmed only after a poll made before the
\* deadline saw current - tx_block + 1 >= required_confirmations; when the
\* deadline passes first the record is expired and never confirmed; for
\* every required_confirmations, 0 and 1 included.
C9_ConfirmedOnlyWhenObserved ==
    DirectRec.status = "confirmed" =>
        /\ dm.observed
        /\ DirectRec.confirmations >= dArgs.confirmations

AcceptedFills ==
    { n \in (StartBlock + 1)..BlockNumber :
        LET b == BlockAt(n) IN
        /\ b.type = "fill"
        /\ b.from = LowerHex(BridgeRec.spoke_pool_destination)
        /\ b.origin = "34268394551451"
        /\ b.to = LowerHex(BridgeRec.wallet)
        /\ b.address = LowerHex(BridgeRec.output_token_address)
        /\ b.value >= (9900 * BridgeRec.raw_output_amount) \div 10000
        /\ b.value <= (10100 * BridgeRec.raw_output_amount) \div 10000 }

\* the stage a running bridge monitor is in, as a status
StageStatus ==
    CASE bm.pc = "deposit" -> "waiting_deposit"
      [] bm.pc = "depositV3" -> "deposit_received"
      [] bm.pc \in {"stage3", "waiting"} -> "bridging"
      [] OTHER -> BridgeRec.status

\* one change of the persisted status, with the evidence the stage demands
StageStep ==
    LET old == BridgeRec.status
        new == BridgeRec'.status
        raw == BridgeRec.raw_input_amount
    IN \/ /\ old = "waiting_deposit"
          /\ new = "deposit_received"
          /\ solBalance + ((raw * 100) \div 10000) >= raw
       \/ /\ old = "deposit_received"
          /\ new = "bridging"
          /\ BridgeRec'.deposit_tx_sig # NoValue
          /\ solBalance' < solBalance
       \/ /\ old = "bridging"
          /\ new = "confirmed"
          /\ \E n \in AcceptedFills : BridgeRec'.tx_hash = TxHash(n)
       \/ /\ old \in {"waiting_deposit", "deposit_received", "bridging"}
          /\ new \in {"expired", "error"}

TerminalStatuses == {"confirmed", "expired", "error"}

\* C12: whenever the direct or the bridge monitor has exited, for whatever
\* reason, its record's status is one of confirmed, expired, error.
C12_ExitLeavesTerminalStatus ==
    /\ dm.pc = "exited" => DirectRec.status \in TerminalStatuses
    /\ bm.pc = "exited" => BridgeRec.status \in TerminalStatuses

(***************************************************************************)
(* Terminal statuses, with the monitor started again.                      *)
(***************************************************************************)
\* C13: once a record's status is confirmed, expired or error, no later
\* operation changes the record's status, a monitor started again for the
\* same payment_id included, with or without --resume-stage3.
C13_TerminalAbsorbing ==
    [][\A id \in PaymentIds :
         (pending[id].kind # NoValue /\ pending[id].status \in TerminalStatuses)
             => pending'[id].status = pending[id].status]_vars

(***************************************************************************)
(* Termination and the deadline.                                           *)
(***************************************************************************)
\* a request or poll of one of the direct monitor's waiting phases: the
\* transfer search (head read, chunk request, native block poll) and the
\* confirmation wait
DirectWaitStep ==
    \/ DHistoricalHead
    \/ DHistoricalChunk
    \/ DNativePoll
    \/ DConfirmationPoll

\* C14: under fair scheduling every monitor run terminates; a run in which no
\* matching transfer was observed ends with the record expired; and once the
\* deadline has passed no phase goes on searching or polling.
C14_TerminatesAtDeadline ==
    /\ <>(dm.pc = "exited")
    /\ []((dm.pc = "exited" /\ dm.found = NoMatch) => DirectRec.status = "expired")
    /\ [][dm.timedOut => ~DirectWaitStep]_vars

\* C14, termination alone: under fair scheduling the direct monitor's process
\* ends
DirectTerminates == <>(dm.pc = "exited")

\* C14, the outcome alone: a run that ended without a matching transfer left
\* the record expired
DirectExpiresWithoutMatch ==
    (dm.pc = "exited" /\ dm.found = NoMatch) => DirectRec.status = "expired"

(***************************************************************************)
(* Notifications.                                                          *)
(***************************************************************************)
\* the notifications in the queue keyed by a payment
NotificationsOf(id) == { n \in notifications : n.payment_id = id }

\* C15: a record a monitor has set to confirmed has exactly one notification
\* keyed by its payment_id, of type direct_confirmed from the direct monitor
\* and bridge_confirmed from the bridge monitor; a run that ended in expired
\* or error has enqueued none.
C15_OneNotificationOnConfirmed ==
    /\ (dm.pc = "exited" /\ DirectRec.status = "confirmed")
           => NotificationsOf(DirectId) =
                { [ type |-> "direct_confirmed", payment_id |-> DirectId ] }
    /\ (bm.pc = "exited" /\ BridgeRec.status = "confirmed")
           => NotificationsOf(BridgeId) =
                { [ type |-> "bridge_confirmed", payment_id |-> BridgeId ] }
    /\ (dm.pc = "exited" /\ DirectRec.status \in {"expired", "error"})
           => NotificationsOf(DirectId) = {}
    /\ (bm.pc = "exited" /\ BridgeRec.status \in {"expired", "error"})
           => NotificationsOf(BridgeId) = {}


\* the notifications enqueued so far: one for every bridge record a monitor
\* has confirmed
EnqueuedSoFar ==
    { BridgeNotification(id) : id \in { i \in PaymentIds :
                                          /\ pending[i].kind = "bridge"
                                          /\ pending[i].status = "confirmed" } }

\* the drains that returned a notification
ReturnedBy(n) == { i \in 1..Len(drain.returned) : n \in drain.returned[i] }

\* C16: in any interleaving of monitors enqueueing and orchestrator requests
\* draining (read all files, then delete), every enqueued notification is in
\* the queue or was returned by exactly one drain: none is deleted without
\* having been read and none is returned by two drains.
C16_DrainedExactlyOnce ==
    \A n \in EnqueuedSoFar :
        /\ n \in notifications \/ ReturnedBy(n) # {}
        /\ Cardinality(ReturnedBy(n)) <= 1


(***************************************************************************)
(* Monitor instances.                                                      *)
(***************************************************************************)
\* the monitor processes alive for the bridge payment
BridgeInstances ==
    (IF bm.pc \notin {"off", "exited"} THEN 1 ELSE 0)
      + (IF bm.twin = "running" THEN 1 ELSE 0)

\* C17: at every moment at most one monitor instance is running for a
\* payment_id, counting the monitor launched by create_payment_link and
\* monitors started by hand or with --resume-stage3.
C17_AtMostOneMonitor == BridgeInstances <= 1


(***************************************************************************)
(* Stage 3: the subscription and the historical check.                     *)
(***************************************************************************)
\* the subscription has delivered the log of block n and the callback has
\* not looked at it yet
InInbox(n) == \E i \in 1..Len(bm.inbox) : bm.inbox[i].blockNumber = n

\* block n lies in the part of the window the historical check has still to
\* request
ToBeSwept(n) == bm.sweep = "scan" /\ n >= bm.cs /\ n <= bm.scanHead

\* stage 3 is waiting for a fill and nothing has settled the wait
Stage3Waiting == bm.pc = "waiting" /\ ~bm.settled

C19_SettlesOnce ==
    /\ [][bm.settled => bm'.settled /\ bm'.fill = bm.fill]_vars
    /\ [][bm.settled => ~BSweepChunk /\ ~BLiveLog /\ ~BFillTimeout]_vars
    /\ [](bm.settled => ~bm.sub /\ bm.inbox = << >>)
    /\ [](BridgeRec.status = "confirmed" =>
             bm.fill # NoFill /\ BridgeRec.tx_hash = bm.fill.txHash)
    /\ []((bm.pc = "exited" /\ BridgeRec.status = "expired") => bm.fill = NoFill)

\* the subscription callback settled the wait while the historical check
\* still had a chunk ahead that holds a second matching fill, and the timer
\* was due as well
C19_Witness ==
    /\ bm.pc = "waiting"
    /\ bm.settled
    /\ bm.timedOut
    /\ bm.fill.path = "live"
    /\ bm.sweep = "scan"
    /\ \E n \in AcceptedFills :
         n # bm.fill.blockNumber /\ n >= bm.cs /\ n <= bm.scanHead


(***************************************************************************)
(* A monitor resumed at stage 3.                                           *)
(***************************************************************************)
\* a monitor resumed on a bridging record runs neither stage 1 nor stage 2:
\* no balance poll, no key, no funding or deposit transaction
ResumeSkipsStages ==
    bArgs.resume =>
        /\ bm.pc \notin {"deposit", "depositV3"}
        /\ bm.actualInput = 0
        /\ solBalance = 0
        /\ BridgeRec.deposit_tx_sig = "sig"
        /\ BridgeRec.status \in {"bridging", "confirmed", "expired"}

\* the historical check of a resumed monitor starts --stage3-lookback blocks
\* (2000 unless given) below the head it read
ResumeWindow ==
    (bArgs.resume /\ bm.sweep = "scan") =>
        /\ bm.fromBlock = Max(0, bm.scanHead - bArgs.lookback)
        /\ bm.cs >= bm.fromBlock

TxCount(kind) == Cardinality({ i \in DOMAIN bm.txs : bm.txs[i] = kind })

\* the approval and the deposit are each confirmed at most once
SubmittedOnce == TxCount("approve") <= 1 /\ TxCount("deposit") <= 1

\* a monitor that starts on a record already at deposit_received or bridging
\* goes to stage 3, not to stage 1 or stage 2
StartSkipsDoneStages ==
    (bm.pc = "start" /\ bm'.pc # "start"
       /\ pending[BridgeId].status \in {"deposit_received", "bridging"})
    => bm'.pc \notin {"deposit", "depositV3"}

\* C21: for one payment, over every sequence of monitor starts, failures and
\* restarts (with or without --resume-stage3), the delegate approval and the
\* deposit instruction are each submitted at most once, and a monitor started
\* on a record whose status is already deposit_received or bridging does not
\* run stage 1 or stage 2 again.
C21_StagesNotRepeated == []SubmittedOnce /\ [][StartSkipsDoneStages]_vars


\* C22: whenever a monitor ends on a fatal error (exit code 1: for the direct
\* monitor no RPC for the chain or no contract address for the token, for the
\* bridge monitor a failed step of stage 2), the record's status has been
\* set to error before the process exits.
C22_FatalSetsError ==
    /\ (dm.pc = "exited" /\ dm.exit = "1") => DirectRec.status = "error"
    /\ (bm.pc = "exited" /\ bm.exit = "1") => BridgeRec.status = "error"


\* C23: in the direct monitor a failed RPC call before the deadline neither
\* ends the monitor nor moves the record to a terminal status: before the
\* deadline the process ends, and the record becomes terminal, only with a
\* confirmed match.
C23_TransientRpcNotFatal ==
    [][~dm.timedOut
         => /\ (dm.pc # "exited" /\ dm'.pc = "exited")
                  => DirectRec'.status = "confirmed"
            /\ (DirectRec.status \notin TerminalStatuses
                  /\ DirectRec'.status \in TerminalStatuses)
                  => DirectRec'.status = "confirmed"]_vars


(***************************************************************************)
(* Claims about stage 1 of the bridge monitor.                             *)
(***************************************************************************)
\* a balance of at least 99% of the record's raw_input_amount
DepositThresholdMet(balance) == balance * 100 >= BridgeRec.raw_input_amount * 99

\* stage 1 ends in one of two ways: a poll before the deadline sees enough,
\* the record becomes deposit_received and the balance seen is handed to
\* stage 2; or the deadline has passed, the record becomes expired and the
\* process ends without a transaction of stage 2
Stage1Ends ==
    (bm.pc = "deposit" /\ bm'.pc # "deposit")
    => \/ /\ ~bm.timedOut
          /\ DepositThresholdMet(solBalance)
          /\ BridgeRec'.status = "deposit_received"
          /\ bm'.pc = "depositV3"
          /\ bm'.actualInput = solBalance
       \/ /\ bm.timedOut
          /\ BridgeRec'.status = "expired"
          /\ bm'.pc = "exited"
          /\ bm'.txs = bm.txs

\* stage 1 is polling and the balance at the deposit address is enough
EnoughSeenInStage1 ==
    /\ bm.pc = "deposit"
    /\ solBalance * 100 >= BridgeRec.raw_input_amount * 99

\* deposit_received is written, and stage 2 entered, by stage 1 alone
Stage1Alone ==
    /\ (BridgeRec.status # "deposit_received"
          /\ BridgeRec'.status = "deposit_received") => bm.pc = "deposit"
    /\ (bm.pc # "depositV3" /\ bm'.pc = "depositV3") => bm.pc = "deposit"

\* C24: stage 1 ends with deposit_received iff a poll before the deadline
\* sees a balance of at least 99% of raw_input_amount, and that balance is
\* the actual input of stage 2; a poll that fails or sees less only leads to
\* another poll; when the deadline passes first the record becomes expired
\* and stage 2 is never started.
C24_Stage1Deposit ==
    /\ [][Stage1Ends /\ Stage1Alone]_vars
    /\ EnoughSeenInStage1 ~> (bm.actualInput > 0 \/ bm.timedOut)
    /\ (bm.pc = "deposit" /\ bm.timedOut)
          ~> (bm.pc = "exited" /\ BridgeRec.status = "expired"
                /\ bm.txs = << >>)

\* the deposit seen is the least accepted one, and stage 2 holds it
C24_Witness ==
    /\ bm.pc = "depositV3"
    /\ BridgeRec.status = "deposit_received"
    /\ DepositThresholdMet(bm.actualInput)
    /\ ~DepositThresholdMet(bm.actualInput - 1)


(***************************************************************************)
(* Claims about the record store.                                          *)
(***************************************************************************)
\* C25: creating a payment record never overwrites an existing one: the
\* script that creates a record (direct or bridge) takes a payment_id that
\* no record has yet, and leaves every existing record as it was, so two
\* create_payment_link requests never share or replace a record.
C25_CreateNeverOverwrites ==
    [][(opc = "exec1" /\ opc' = "exec2")
         => /\ pending[newId'] = NoRecord
            /\ \A id \in PaymentIds :
                 pending[id] # NoRecord => pending'[id] = pending[id]]_vars


\* C26: record writes are atomic: a reader that runs while a monitor writes
\* the record (check_payment here) sees the whole previous record or the
\* whole new one, never an empty or partly written file.
C26_ReaderSeesWholeRecord == response.status # ReadRecordFile(EmptyFile)


(***************************************************************************)
(* Claims about the historical scans.                                      *)
(***************************************************************************)
\* the historical loop of the direct monitor, of the bridge monitor, has
\* ended without a match
DirectScanEnded == dm.scan.on /\ dm.pc = "subscribe"
BridgeScanEnded ==
    bm.scan.on /\ bm.scan.to > 0 /\ bm.sweep = "idle" /\ ~bm.settled

\* the requests of a scan are ceil((b-a+1)/10) ranges of at most 10 blocks
\* that follow one another from a to b without gap or overlap
ExactCover(scan) ==
    LET asked == scan.asked
        n == Len(asked)
    IN /\ scan.from <= scan.to
       /\ n = (scan.to - scan.from + 1 + 9) \div 10
       /\ asked[1].from = scan.from
       /\ asked[n].to = scan.to
       /\ \A i \in 1..n : /\ asked[i].from <= asked[i].to
                          /\ asked[i].to - asked[i].from + 1 <= 10
       /\ \A i \in 1..(n - 1) : asked[i + 1].from = asked[i].to + 1

\* C27: a historical getLogs scan over blocks [a, b] that finds no match
\* issues exactly ceil((b-a+1)/10) requests, each of at most 10 blocks,
\* disjoint, contiguous, ascending, with union [a, b]; in the direct
\* monitor's scan and in the bridge monitor's stage-3 sweep.
C27_ChunksCoverWindow ==
    /\ DirectScanEnded => ExactCover(dm.scan)
    /\ BridgeScanEnded => ExactCover(bm.scan)

\* a sweep of 21 blocks or more has ended after three requests, the last
\* one shorter than the others
C27_Witness ==
    /\ BridgeScanEnded
    /\ Len(bm.scan.asked) = 3
    /\ bm.scan.asked[3].to - bm.scan.asked[3].from + 1 < 10


\* the blocks of the requests of a scan that were rejected
FailedBlocks(scan) ==
    UNION { scan.asked[i].from..scan.asked[i].to :
              i \in { j \in DOMAIN scan.asked : ~scan.asked[j].ok } }

\* a scan that has ended without a match asked up to the end of its window,
\* and a block of the window that holds what is awaited lies in a rejected
\* request
OnlyFailedChunksMiss(scan, type) ==
    /\ scan.asked[Len(scan.asked)].to = scan.to
    /\ \A n \in scan.from..scan.to :
         BlockAt(n).type = type => n \in FailedBlocks(scan)

\* while a scan is under way the chunk it asks for next follows the last
\* one asked for, whether that request returned or not
NextChunkFollows(scan, cs) ==
    scan.asked # << >>
       => /\ cs = scan.asked[Len(scan.asked)].to + 1
          /\ cs <= scan.to

\* C28: a getLogs call that fails on one chunk of a historical scan does not
\* end the scan or the monitor: every later chunk of the window is still
\* asked for, and a matching log in a chunk whose request returned is found.
C28_FailedChunkSkipped ==
    /\ dm.scan.on
         => /\ FailedBlocks(dm.scan) # {} => dm.pc # "exited"
            /\ (dm.pc = "historical" /\ dm.scanHead > 0)
                  => NextChunkFollows(dm.scan, dm.cs)
            /\ DirectScanEnded => OnlyFailedChunksMiss(dm.scan, "transfer")
    /\ bm.scan.on
         => /\ FailedBlocks(bm.scan) # {} => bm.pc = "waiting"
            /\ (bm.sweep = "scan" /\ ~bm.settled)
                  => NextChunkFollows(bm.scan, bm.cs)
            /\ BridgeScanEnded => OnlyFailedChunksMiss(bm.scan, "fill")

\* the first request of a sweep was rejected and the fill was found by the
\* third
C28_Witness ==
    /\ bm.scan.on
    /\ Len(bm.scan.asked) = 3
    /\ ~bm.scan.asked[1].ok
    /\ bm.fill.path = "historical"
    /\ bm.fill.blockNumber >= bm.scan.asked[3].from


(***************************************************************************)
(* Claims about a policy without settlement chains.                        *)
(***************************************************************************)
\* C29: a create_payment_link request against a policy with status active
\* and an empty allowed_chains is answered not_ready: it is neither rejected
\* with violation chain nor routed to the bridge.
C29_EmptyChainsNotReady ==
    (boundary.status = "active" /\ boundary.allowed_chains = {})
       => /\ response # NoResponse => response.status = "not_ready"
          /\ route.route # "bridge"


(***************************************************************************)
(* Claims about the OTP of the onboarding.                                 *)
(***************************************************************************)
\* a verify-otp.ts call ends with the given result
VerifyEnds(p, result) ==
    otp.procs[p].pc = "read" /\ otp'.procs[p].pc = "idle"
       /\ otp'.procs[p].result = result

\* C30: for one issued OTP, verify-otp.ts answers valid only when the code
\* submitted is the stored one, the OTP has not expired and fewer than 3
\* invalid attempts are recorded; over every sequence and every interleaving
\* of verify calls at most 3 invalid guesses are compared with the OTP; and
\* once 3 are recorded even the right code is refused and the OTP deleted.
C30_OtpGuessLimit ==
    /\ [](otp.compared <= 3)
    /\ [][\A p \in Verifiers :
            /\ VerifyEnds(p, "valid")
                 => /\ otp.procs[p].code = StoredOtp
                    /\ ~otp.late
                    /\ otp.procs[p].rec.attempts < 3
            /\ (otp.procs[p].pc = "read" /\ otp'.procs[p].pc = "idle"
                  /\ ~otp.late /\ otp.procs[p].rec.attempts >= 3)
                 => /\ otp'.procs[p].result = "max_attempts_exceeded"
                    /\ otp'.file = NoOtpFile]_vars

(***************************************************************************)
(* Both monitors through all their stages, each on its own payment: the    *)
(* direct monitor until confirmed or expired, the bridge monitor from the  *)
(* deposit until confirmed or expired.                                     *)
(***************************************************************************)
InitFrame ==
    /\ RouterDone({ << "direct", DirectId >>, << "bridge", BridgeId >> })
    /\ dArgs = [ chain |-> "polygon", token |-> "USDC", amount |-> Dust,
                 wallet |-> LowerHex(SettlementWallet), confirmations |-> 1 ]
    /\ bArgs = [ resume |-> FALSE, lookback |-> 2000 ]
    /\ pending = [ id \in PaymentIds |->
                     IF id = DirectId
                     THEN DirectRecord(dArgs.chain, dArgs.token, dArgs.amount)
                     ELSE BridgeRecordAtLaunch(Dust, bArgs.resume) ]
    /\ blocks = << >>
    /\ dm = [ DirectOff EXCEPT !.pc = "start" ]
    /\ bm = [ BridgeOff EXCEPT !.pc = "start" ]
    /\ solBalance = 0
    /\ notifications = {}
    /\ drain = NoDrain
    /\ otp = NoOtp

NextFrame ==
    \/ DStart
    \/ DHistoricalHead
    \/ DHistoricalChunk
    \/ DSubscribe
    \/ DLiveLog
    \/ DLiveTimeout
    \/ DFound
    \/ DConfirmationPoll
    \/ DConfirmationTimeout
    \/ DDeadline
    \/ BStart
    \/ BPollDeposit
    \/ BDepositTimeout
    \/ BCallDepositV3
    \/ BStage3Start
    \/ BLiveLog
    \/ BSweepHead
    \/ BSweepChunk
    \/ BResolve
    \/ BFillTimeout
    \/ BDeadline
    \/ SolDeposit
    \/ MinePayment
    \/ MineFill

SpecFrame == InitFrame /\ [][NextFrame]_vars

(***************************************************************************)
(* Claims about the relay fee, the deposit parameters and stage 2.         *)
(***************************************************************************)
\* the record bridge-payment.ts has written for the request at hand
Quoted == pending[BridgeId] # NoRecord /\ request.amount \in QuoteAmounts
QuotedRec == pending[BridgeId]

\* the fee and the raw amounts of the record are those the claim names
QuotedAsComputed ==
    LET amount == request.amount
        fee == MathMax(PctFee(amount), MinRelayFeeBuffer)
    IN /\ QuotedRec.raw_relay_fee = MathRound(fee)
       /\ QuotedRec.raw_input_amount = MathRound(AmountToSend(amount, fee))
       /\ QuotedRec.raw_output_amount = MathRound(amount)
       /\ QuotedRec.raw_relay_fee >= MathRound(MinRelayFeeBuffer)
       /\ QuotedRec.raw_input_amount > QuotedRec.raw_output_amount

RECURSIVE ReadU64LE(_)
\* the number eight bytes hold, least significant first
ReadU64LE(bytes) ==
    IF bytes = << >> THEN 0 ELSE Head(bytes)[3] + 256 * ReadU64LE(Tail(bytes))

\* the eight bytes of input_amount, which follow the four 32-byte fields
InputAmountBytes(params) == SubSeq(params, 129, 136)

\* C32: the bytes hashed for the delegate PDA are the bytes the deposit
\* instruction carries after its 8-byte discriminator, and the amount
\* approved for the delegate is the input_amount in those bytes, which is
\* the actual_input of stage 1
C32_SeedIsDepositParams ==
    /\ bm.ix.seed # << >> =>
          /\ bm.ix.approved = ReadU64LE(InputAmountBytes(bm.ix.seed))
          /\ bm.ix.approved = bm.actualInput
    /\ bm.ix.data # << >> =>
          /\ Len(bm.ix.data) = 8 + Len(bm.ix.seed)
          /\ SubSeq(bm.ix.data, 9, Len(bm.ix.data)) = bm.ix.seed
          /\ bm.ix.approved = ReadU64LE(InputAmountBytes(SubSeq(bm.ix.data, 9,
                                                               Len(bm.ix.data))))

\* a deposit instruction built for a deposit that fell short of the record's
\* raw_input_amount
C32_Witness ==
    /\ bm.ix.data # << >>
    /\ bm.ix.log[Len(bm.ix.log)] = << "sent", "deposit" >>
    /\ bm.actualInput > 0
    /\ bm.actualInput < pending[BridgeId].raw_input_amount

\* the order the claim gives: funding only with a dispenser key, then the
\* approval, then the deposit
Stage2Order == IF bm.ix.dispenserKey THEN << "fund", "approve", "deposit" >>
               ELSE << "approve", "deposit" >>

\* the transactions sent so far, in the order they were sent
SentTxs == LET at == { i \in 1..Len(bm.ix.log) : bm.ix.log[i][1] = "sent" }
               nth(k) == CHOOSE i \in at : Cardinality({ j \in at : j <= i }) = k
           IN [ k \in 1..Cardinality(at) |-> bm.ix.log[nth(k)][2] ]

\* C33: stage 2 sends funding (only with a dispenser key), approve, deposit
\* in that order; a transaction is sent only right after the one before it
\* was confirmed; after a transaction that failed, was rejected or was not
\* confirmed in time nothing more is sent and the process is over
C33_Stage2InOrder ==
    LET log == bm.ix.log IN
    /\ Len(SentTxs) <= Len(Stage2Order)
    /\ SentTxs = SubSeq(Stage2Order, 1, Len(SentTxs))
    /\ \A i \in 1..Len(log) :
         /\ (log[i][1] = "sent" /\ i > 1) =>
               /\ log[i - 1][1] = "confirmed"
               /\ \E k \in 2..Len(Stage2Order) :
                     /\ Stage2Order[k] = log[i][2]
                     /\ Stage2Order[k - 1] = log[i - 1][2]
         /\ (log[i][1] = "sent" /\ i = 1) => log[i][2] = Stage2Order[1]
         /\ log[i][1] = "confirmed" =>
               i > 1 /\ log[i - 1] = << "sent", log[i][2] >>
         /\ log[i][1] \in {"failed", "unconfirmed", "rejected"} =>
               /\ i = Len(log)
               /\ bm.pc = "exited" /\ bm.exit = "1"
               /\ bm.ix.sent = NoValue
               /\ pending[BridgeId].status = "deposit_received"

\* funding and approval confirmed, the deposit sent and not confirmed in
\* time: the run is over with three transactions sent
C33_Witness ==
    /\ bm.ix.dispenserKey
    /\ bm.ix.log = << << "sent", "fund" >>, << "confirmed", "fund" >>,
                      << "sent", "approve" >>, << "confirmed", "approve" >>,
                      << "sent", "deposit" >>, << "unconfirmed", "deposit" >> >>
    /\ bm.pc = "exited"

(***************************************************************************)
(* Claims about the historical window and the scan.                        *)
(***************************************************************************)
\* the look-back bound of a chain class (150 blocks at 2 s per block, 1500
\* blocks at a quarter of a second per block)
LookbackBound(chain) == IF chain = "polygon" THEN 150 ELSE 1500
\* the blocks a chain has mined in the given whole seconds, rounded down
BlocksMinedIn(chain, seconds) ==
    IF chain = "polygon" THEN seconds \div 2 ELSE seconds * 4

\* a historical scan of the direct monitor has been given its window
WindowSet == dm.scan.on /\ dm.scan.to > 0

\* the first block of the scan is not negative and not before head - bound
WindowWithinBound ==
    /\ dm.scan.from >= 0
    /\ dm.scan.from >= dm.scan.to - LookbackBound(dArgs.chain)

\* the first block of the scan is not after the block estimated for
\* created_at from the chain's block time (within the bound)
WindowReachesCreation ==
    dm.scan.from <= Max(0, dm.scan.to - Min(BlocksMinedIn(dArgs.chain, dm.scan.age),
                                            LookbackBound(dArgs.chain)))

\* C34: the historical scan of the direct monitor starts at a block that is
\* never negative, never earlier than head - 150 (Polygon class) or
\* head - 1500 (Arbitrum class), and never later than the block estimated
\* for payment.created_at from the chain's block time
C34_WindowFromCreation ==
    WindowSet => WindowWithinBound /\ WindowReachesCreation

\* the blocks of the requests of a scan that returned
ScannedBlocks(scan) ==
    UNION { scan.asked[i].from..scan.asked[i].to :
              i \in { j \in DOMAIN scan.asked : scan.asked[j].ok } }

\* C35: a chunk whose getLogs request failed is requested again, so that when
\* a historical scan has ended without a match every block of its window
\* has been covered by a request that returned (and a matching log in a
\* chunk that failed once has been found)
C35_FailedChunkRetried ==
    /\ DirectScanEnded => \A n \in dm.scan.from..dm.scan.to : n \in ScannedBlocks(dm.scan)
    /\ BridgeScanEnded => \A n \in bm.scan.from..bm.scan.to : n \in ScannedBlocks(bm.scan)

\* stage 1 has accepted a deposit
DepositAccepted == bm.actualInput > 0

\* C36: whenever stage 1 accepts a deposit, the actual_input used as the
\* input amount of the deposit is at least the record's raw_output_amount
C36_InputCoversOutput ==
    DepositAccepted =>
        /\ bm.actualInput >= pending[BridgeId].raw_output_amount
        /\ bm.ix.data # << >> =>
              ReadU64LE(InputAmountBytes(SubSeq(bm.ix.data, 9, Len(bm.ix.data))))
                  >= pending[BridgeId].raw_output_amount

\* the blocks that carry a Transfer log the direct ERC-20 monitor accepts: to
\* the wallet, not a relay fill, the amount within the tolerance
AcceptedTransfers ==
    { n \in (StartBlock + 1)..BlockNumber :
        LET b == BlockAt(n) IN
        /\ b.type = "transfer"
        /\ b.address = LowerHex(TokenAddress(dArgs.chain, dArgs.token))
        /\ b.to = LowerHex(SettlementWallet)
        /\ b.from \notin BRIDGE_SENDERS
        /\ b.value >= (99 * ExpectedRaw) \div 100
        /\ b.value <= (110 * ExpectedRaw) \div 100 }

\* the subscription has delivered the log of block n to the direct monitor
InDirectInbox(n) == \E i \in 1..Len(dm.inbox) : dm.inbox[i].blockNumber = n

\* the direct monitor waits for an ERC-20 transfer and has found none yet
Erc20Awaited ==
    /\ dArgs.token \notin NativeTokens
    /\ dm.pc \in {"historical", "subscribe", "live"}
    /\ dm.found = NoMatch

\* while the historical scan runs, a matching transfer in a block after the
\* head the scan read has been delivered to the subscription
NoGapAfterHead ==
    (Erc20Awaited /\ dm.pc = "historical" /\ dm.scanHead > 0) =>
        \A n \in AcceptedTransfers : n > dm.scanHead => InDirectInbox(n)

\* a matching transfer was mined after the historical scan read the head and
\* before the subscription was registered
MinedInGap ==
    /\ Erc20Awaited
    /\ dm.pc = "historical"
    /\ dm.scanHead > 0
    /\ \E n \in AcceptedTransfers : n > dm.scanHead

\* C37: in the direct ERC-20 monitor no block is covered by neither the
\* historical scan nor the subscription: a matching transfer mined after the
\* scan read the head and before the subscription was registered is delivered
\* to the subscription, and with the process scheduled fairly it is detected
\* unless the deadline passes first
C37_NoGap ==
    /\ []NoGapAfterHead
    /\ (MinedInGap /\ ~dm.timedOut) ~> (dm.found # NoMatch \/ dm.timedOut)

(***************************************************************************)
(* Claims about what a monitor run writes.                                 *)
(***************************************************************************)
\* the fields a direct-monitor update may change, and those a bridge-monitor
\* update may change or add
DirectUpdateFields == {"status", "tx_hash", "confirmations", "confirmed_at"}
BridgeUpdateFields ==
    {"status", "deposit_received_at", "deposit_tx_sig", "bridging_at", "tx_hash",
     "confirmations", "confirmed_at", "expired_at"}

\* every field outside the given ones is in the new record as it was in the
\* old one
OnlyChanged(old, new, fields) ==
    \A f \in (DOMAIN old \cup DOMAIN new) \ fields :
        /\ f \in DOMAIN old
        /\ f \in DOMAIN new
        /\ new[f] = old[f]

\* the notification files of payments other than id are left as they were
OnlyNotificationOf(id) ==
    /\ \A n \in notifications : n.payment_id # id => n \in notifications'
    /\ \A n \in notifications' : n.payment_id # id => n \in notifications

\* C38: a step of the direct monitor leaves the other payment's record and
\* every notification file as they were and changes only status, tx_hash,
\* confirmations and confirmed_at of its own record; a step of the bridge
\* monitor leaves the other payment's record and the other payments'
\* notification files as they were and changes only status and the stage
\* fields of its own record; no other step writes a record or a notification
C38_MonitorFrame ==
    [][ /\ (dm' # dm /\ blocks' = blocks) =>
              /\ pending'[BridgeId] = pending[BridgeId]
              /\ notifications' = notifications
              /\ OnlyChanged(pending[DirectId], pending'[DirectId], DirectUpdateFields)
        /\ (bm' # bm /\ blocks' = blocks) =>
              /\ pending'[DirectId] = pending[DirectId]
              /\ OnlyNotificationOf(BridgeId)
              /\ OnlyChanged(pending[BridgeId], pending'[BridgeId], BridgeUpdateFields)
        /\ (dm' = dm /\ bm' = bm) =>
              /\ pending' = pending
              /\ notifications' = notifications ]_vars

\* both monitors have written: the direct record is confirmed, the bridge
\* record went from the deposit through bridging to confirmed and its
\* notification is queued
C38_Witness ==
    /\ ~bArgs.resume
    /\ dm.pc = "exited"
    /\ bm.pc = "exited"
    /\ pending[DirectId].status = "confirmed"
    /\ pending[DirectId].tx_hash # NoValue
    /\ pending[BridgeId].status = "confirmed"
    /\ pending[BridgeId].deposit_tx_sig # NoValue
    /\ BridgeNotification(BridgeId) \in notifications

====
